---- MODULE Spec2Model ----
(***************************************************************************)
(* A model of mshv-bindings/src/x86_64/regs.rs: the raw aligned Buffer,   *)
(* the segment register codec, the LAPIC and XSAVE codecs and the VP-state *)
(* component directory.                                                    *)
(*                                                                         *)
(* Each component has its own specification (SpecBuf, SpecSeg, SpecCodec,  *)
(* SpecDir) over the same variables; the variables of the components a     *)
(* specification does not exercise stay at their idle values.              *)
(*                                                                         *)
(* Representation.  TLC's integers are 32-bit signed, so a u32 is kept as  *)
(* its four little-endian bytes <<b0, b1, b2, b3>> (x86_64 is little       *)
(* endian), which is also what a u32 store to a byte buffer writes.        *)
(* Memory is a function from byte offsets 0..n-1 to bytes 0..255.          *)
(***************************************************************************)
EXTENDS Integers, Sequences, FiniteSets, TLC

\* ---- raw aligned Buffer (regs.rs 470-512) ----
VARIABLES bufState, bufLayout, bufPtr, bufMem, bufReq, allocLog, deallocLog,
          bufSizeSeen, bufOps

bufVars == <<bufState, bufLayout, bufPtr, bufMem, bufReq, allocLog, deallocLog,
             bufSizeSeen, bufOps>>

\* ---- segment register codec (regs.rs 43-141) ----
VARIABLES segPc, segX, hvY, segZ, hvZ

segVars == <<segPc, segX, hvY, segZ, hvZ>>

\* ---- LAPIC and XSAVE codecs (regs.rs 514-678) ----
VARIABLES codecPc, rawIn, rawBuf, lapic, xsave, codecErr, codecHeap, typedLog,
          encPtr

codecVars == <<codecPc, rawIn, rawBuf, lapic, xsave, codecErr, codecHeap, typedLog,
               encPtr>>

\* ---- VP-state component directory (regs.rs 708-781) ----
VARIABLES dirs, extBuf, calls, dirPanicked

dirVars == <<dirs, extBuf, calls, dirPanicked>>

\* ---- MSR resolver and MSR set builder (regs.rs 223-372, 811-952) ----
VARIABLES msrCalls, msrResolved, msrLookups

msrVars == <<msrCalls, msrResolved, msrLookups>>

vars == <<bufVars, segVars, codecVars, dirVars, msrVars>>

\* ------------------------------------------------------------------------
\* Bounds of the model
\* ------------------------------------------------------------------------
\* Largest size requested of Buffer::new in SpecBuf.
MaxBufSize == 2
\* Number of operations performed on one Buffer in SpecBuf.
MaxBufOps == 3
\* Largest number of non-zero words in an ISR array drawn in SpecCodec.
MaxIsrNonZero == 2
\* Number of copy_to_or_from_buffer calls in a run of SpecDir.
MaxCopies == 2
\* Number of get_partition_supported_msrs calls in a run of SpecMsr.
MaxMsrCalls == 2
\* Number of msr_to_hv_reg_name calls in a run of SpecResolve.
MaxLookups == 2

\* ------------------------------------------------------------------------
\* Bytes and memory
\* ------------------------------------------------------------------------
Byte == 0..255

\* n zero bytes at offsets 0..n-1 (::std::mem::zeroed, ptr::write_bytes(.., 0, n)).
ZeroMem(n) == [k \in 0..(n - 1) |-> 0]

\* ------------------------------------------------------------------------
\* Segment register codec
\* ------------------------------------------------------------------------
\* `x as u8`.
AsU8(x) == x % 256

\* `x as u16`.
AsU16(x) == x % 65536

Pow2(n) == IF n = 0 THEN 1 ELSE IF n = 1 THEN 2 ELSE IF n = 2 THEN 4 ELSE IF n = 3 THEN 8
           ELSE IF n = 4 THEN 16 ELSE IF n = 5 THEN 32 ELSE IF n = 6 THEN 64
           ELSE IF n = 7 THEN 128 ELSE IF n = 8 THEN 256 ELSE IF n = 9 THEN 512
           ELSE IF n = 10 THEN 1024 ELSE IF n = 11 THEN 2048 ELSE IF n = 12 THEN 4096
           ELSE IF n = 13 THEN 8192 ELSE IF n = 14 THEN 16384 ELSE IF n = 15 THEN 32768
           ELSE 65536

\* The bindgen bitfield accessors of hv_x64_segment_register's 16-bit attribute
\* word: get(pos, width) reads width bits at bit pos; set(pos, width, val) stores
\* the low width bits of val there and leaves the other bits alone.
BitfieldGet(word, pos, width) == (word \div Pow2(pos)) % Pow2(width)
BitfieldSet(word, pos, width, val) ==
    word - BitfieldGet(word, pos, width) * Pow2(pos) + (val % Pow2(width)) * Pow2(pos)

\* Bit layout of the attribute word: segment_type:4, non_system_segment:1,
\* descriptor_privilege_level:2, present:1, reserved:4, available:1, _long:1,
\* _default:1, granularity:1.
segment_type(a) == BitfieldGet(a, 0, 4)
non_system_segment(a) == BitfieldGet(a, 4, 1)
descriptor_privilege_level(a) == BitfieldGet(a, 5, 2)
present(a) == BitfieldGet(a, 7, 1)
available(a) == BitfieldGet(a, 12, 1)
_long(a) == BitfieldGet(a, 13, 1)
_default(a) == BitfieldGet(a, 14, 1)
granularity(a) == BitfieldGet(a, 15, 1)
set_segment_type(a, v) == BitfieldSet(a, 0, 4, v)
set_non_system_segment(a, v) == BitfieldSet(a, 4, 1, v)
set_descriptor_privilege_level(a, v) == BitfieldSet(a, 5, 2, v)
set_present(a, v) == BitfieldSet(a, 7, 1, v)
set_available(a, v) == BitfieldSet(a, 12, 1, v)
set__long(a, v) == BitfieldSet(a, 13, 1, v)
set__default(a, v) == BitfieldSet(a, 14, 1, v)
set_granularity(a, v) == BitfieldSet(a, 15, 1, v)

\* SegmentRegister::default() (derive(Default), lines 41-58).
SegmentRegister_default ==
    [base |-> 0, limit |-> 0, selector |-> 0, type_ |-> 0, present |-> 0, dpl |-> 0,
     db |-> 0, s |-> 0, l |-> 0, g |-> 0, avl |-> 0, unusable |-> 0, padding |-> 0]

\* hv_x64_segment_register::default(): all zero.
hv_x64_segment_register_default ==
    [base |-> 0, limit |-> 0, selector |-> 0, attributes |-> 0]

\* A plausible slip: db read from _long and l from _default.
SegmentRegister_from_swapped(hv_reg) ==
    [base |-> hv_reg.base, limit |-> hv_reg.limit, selector |-> hv_reg.selector,
     unusable |-> 0, padding |-> 0,
     type_ |-> AsU8(segment_type(hv_reg.attributes)),
     present |-> AsU8(present(hv_reg.attributes)),
     dpl |-> AsU8(descriptor_privilege_level(hv_reg.attributes)),
     db |-> AsU8(_long(hv_reg.attributes)),
     s |-> AsU8(non_system_segment(hv_reg.attributes)),
     l |-> AsU8(_default(hv_reg.attributes)),
     g |-> AsU8(granularity(hv_reg.attributes)),
     avl |-> AsU8(available(hv_reg.attributes))]

\* impl From<hv_x64_segment_register> for SegmentRegister, lines 60-92.
SegmentRegister_from(hv_reg) ==
    LET reg0 == [SegmentRegister_default EXCEPT
                    !.base = hv_reg.base, !.limit = hv_reg.limit,
                    !.selector = hv_reg.selector, !.unusable = 0, !.padding = 0]
    IN [reg0 EXCEPT
          !.type_ = AsU8(segment_type(hv_reg.attributes)),
          !.present = AsU8(present(hv_reg.attributes)),
          !.dpl = AsU8(descriptor_privilege_level(hv_reg.attributes)),
          !.db = AsU8(_default(hv_reg.attributes)),
          !.s = AsU8(non_system_segment(hv_reg.attributes)),
          !.l = AsU8(_long(hv_reg.attributes)),
          !.g = AsU8(granularity(hv_reg.attributes)),
          !.avl = AsU8(available(hv_reg.attributes))]

\* A plausible slip: db written with set__long and l with set__default.
hv_x64_segment_register_from_swapped(reg) ==
    LET a0 == hv_x64_segment_register_default.attributes
        a1 == set_segment_type(a0, AsU16(reg.type_))
        a2 == set_present(a1, AsU16(reg.present))
        a3 == set_descriptor_privilege_level(a2, AsU16(reg.dpl))
        a4 == set__long(a3, AsU16(reg.db))
        a5 == set_non_system_segment(a4, AsU16(reg.s))
        a6 == set__default(a5, AsU16(reg.l))
        a7 == set_granularity(a6, AsU16(reg.g))
        a8 == set_available(a7, AsU16(reg.avl))
    IN [base |-> reg.base, limit |-> reg.limit, selector |-> reg.selector,
        attributes |-> a8]

\* impl From<SegmentRegister> for hv_x64_segment_register, lines 93-141: the
\* setters run in the order of the source on a zeroed attribute word.
hv_x64_segment_register_from(reg) ==
    LET a0 == hv_x64_segment_register_default.attributes
        a1 == set_segment_type(a0, AsU16(reg.type_))
        a2 == set_present(a1, AsU16(reg.present))
        a3 == set_descriptor_privilege_level(a2, AsU16(reg.dpl))
        a4 == set__default(a3, AsU16(reg.db))
        a5 == set_non_system_segment(a4, AsU16(reg.s))
        a6 == set__long(a5, AsU16(reg.l))
        a7 == set_granularity(a6, AsU16(reg.g))
        a8 == set_available(a7, AsU16(reg.avl))
    IN [base |-> reg.base, limit |-> reg.limit, selector |-> reg.selector,
        attributes |-> a8]

\* The SegmentRegister values drawn: base/limit/selector (copied as they are) and,
\* per attribute, values inside and outside its bit width.
\* <<base, limit, selector>>
SegBLS == {<<0, 0, 0>>, <<1048576, 65535, 8>>}
SegInputs ==
    { [base |-> bls[1], limit |-> bls[2], selector |-> bls[3],
       type_ |-> t, present |-> p, dpl |-> d, db |-> db, s |-> s, l |-> l, g |-> g,
       avl |-> avl, unusable |-> u, padding |-> pad] :
      bls \in SegBLS, t \in {0, 11, 27}, p \in {0, 1, 3}, d \in {0, 3, 5},
      db \in {0, 1}, s \in {0, 1}, l \in {0, 1}, g \in {0, 1}, avl \in {0, 1},
      u \in {0, 1}, pad \in {0, 1} }

\* The packed registers drawn: attribute words with no bit, every bit, only the
\* bits 8..11 no field names, one bit each, and a code segment's 0xA09B.
HvSegAttributes == {0, 65535, 3840, 41115} \cup {Pow2(k) : k \in 0..15}

HvSegInputs ==
    { [base |-> bls[1], limit |-> bls[2], selector |-> bls[3], attributes |-> a] :
      bls \in SegBLS, a \in HvSegAttributes }

\* ------------------------------------------------------------------------
\* Buffer: layout and allocator
\* ------------------------------------------------------------------------
\* usize::is_power_of_two, for the alignments the model requests.
IsPowerOfTwo(n) == n \in {1, 2, 4, 8, 16, 4096}

\* std::alloc::Layout::from_size_align(size, align): Err unless align is a non-zero
\* power of two.  (Its other error arm, size rounded up to align exceeding
\* isize::MAX, needs sizes near 2^63 and is not reachable with the sizes drawn.)
LayoutFromSizeAlign(size, align) ==
    IF align # 0 /\ IsPowerOfTwo(align)
    THEN [ok |-> TRUE, size |-> size, align |-> align]
    ELSE [ok |-> FALSE, size |-> size, align |-> align]

\* Addresses the allocator may hand out; 0 is the null pointer.
HeapAddrs == {6, 8, 16, 4096}

\* std::alloc::alloc(layout): null on failure, else a block aligned to layout.align.
\* A zero-sized layout is undefined behaviour: any pointer may come back.
Alloc(layout) ==
    IF layout.size = 0
    THEN {0} \cup HeapAddrs
    ELSE {0} \cup {a \in HeapAddrs : a % layout.align = 0}

\* Contents of freshly allocated (uninitialised) memory: any bytes.
UninitBytes == {0, 170}
UninitMem(n) == [0..(n - 1) -> UninitBytes]

\* ------------------------------------------------------------------------
\* LAPIC codec
\* ------------------------------------------------------------------------
U32Zero == <<0, 0, 0, 0>>

\* The u32 with value n, for n below 2^31.
ToU32(n) == <<n % 256, (n \div 256) % 256, (n \div 65536) % 256, (n \div 16777216) % 256>>

\* *(state.offset(off) as *mut u32) = v
WriteU32(regs, off, v) ==
    [regs EXCEPT ![off] = v[1], ![off + 1] = v[2], ![off + 2] = v[3], ![off + 3] = v[4]]

\* *(state.offset(off) as *mut u32)
ReadU32(regs, off) == <<regs[off], regs[off + 1], regs[off + 2], regs[off + 3]>>

LOCAL_APIC_OFFSET_APIC_ID == 32
LOCAL_APIC_OFFSET_VERSION == 48
LOCAL_APIC_OFFSET_TPR == 128
LOCAL_APIC_OFFSET_APR == 144
LOCAL_APIC_OFFSET_PPR == 160
LOCAL_APIC_OFFSET_EOI == 176
LOCAL_APIC_OFFSET_REMOTE_READ == 192
LOCAL_APIC_OFFSET_LDR == 208
LOCAL_APIC_OFFSET_DFR == 224
LOCAL_APIC_OFFSET_SPURIOUS == 240
LOCAL_APIC_OFFSET_ISR == 256
LOCAL_APIC_OFFSET_TMR == 384
LOCAL_APIC_OFFSET_IRR == 512
LOCAL_APIC_OFFSET_ERROR == 640
LOCAL_APIC_OFFSET_ICR_LOW == 768
LOCAL_APIC_OFFSET_ICR_HIGH == 784
LOCAL_APIC_OFFSET_TIMER_LVT == 800
LOCAL_APIC_OFFSET_THERMAL_LVT == 816
LOCAL_APIC_OFFSET_PERFMON_LVT == 832
LOCAL_APIC_OFFSET_LINT0_LVT == 848
LOCAL_APIC_OFFSET_LINT1_LVT == 864
LOCAL_APIC_OFFSET_ERROR_LVT == 880
LOCAL_APIC_OFFSET_INITIAL_COUNT == 896
LOCAL_APIC_OFFSET_CURRENT_COUNT == 912
LOCAL_APIC_OFFSET_DIVIDER == 992
LOCAL_X2APIC_OFFSET_SELF_IPI == 1008

\* size_of_val(&LapicState.regs): [c_char; 1024].
LAPIC_REGS_SIZE == 1024
\* size_of_val(&XSave.buffer): [u8; 4096].
XSAVE_BUFFER_SIZE == 4096

HV_PAGE_SIZE == 4096
HV_HYP_PAGE_SHIFT == 12

\* x >> HV_HYP_PAGE_SHIFT
ShiftRightPage(x) == x \div Pow2(HV_HYP_PAGE_SHIFT)

\* size_of::<hv_local_interrupt_controller_state>(): the 20 u32 fields and the
\* three [u32; 8] arrays of the struct literal of lines 639-663.
HV_LAPIC_STATE_SIZE == 4 * (20 + 3 * 8)

\* A register file that is not zeroed before the decode fills it.
LapicState_dirty == [k \in 0..(LAPIC_REGS_SIZE - 1) |-> 170]

\* LapicState::default(): mem::zeroed.
LapicState_default == ZeroMem(LAPIC_REGS_SIZE)

\* XSave::default(): mem::zeroed.
XSave_default == ZeroMem(XSAVE_BUFFER_SIZE)

\* hv_local_interrupt_controller_state, all zero.
hv_lapic_zero ==
    [apic_id |-> U32Zero, apic_version |-> U32Zero, apic_remote_read |-> U32Zero,
     apic_ldr |-> U32Zero, apic_dfr |-> U32Zero, apic_spurious |-> U32Zero,
     apic_esr |-> U32Zero, apic_icr_low |-> U32Zero, apic_icr_high |-> U32Zero,
     apic_lvt_timer |-> U32Zero, apic_lvt_thermal |-> U32Zero,
     apic_lvt_perfmon |-> U32Zero, apic_lvt_lint0 |-> U32Zero,
     apic_lvt_lint1 |-> U32Zero, apic_lvt_error |-> U32Zero,
     apic_initial_count |-> U32Zero, apic_counter_value |-> U32Zero,
     apic_divide_configuration |-> U32Zero, apic_error_status |-> U32Zero,
     apic_lvt_cmci |-> U32Zero,
     apic_isr |-> [i \in 0..7 |-> U32Zero], apic_tmr |-> [i \in 0..7 |-> U32Zero],
     apic_irr |-> [i \in 0..7 |-> U32Zero]]

\* u8::leading_zeros
Lz8(b) == IF b >= 128 THEN 0 ELSE IF b >= 64 THEN 1 ELSE IF b >= 32 THEN 2
          ELSE IF b >= 16 THEN 3 ELSE IF b >= 8 THEN 4 ELSE IF b >= 4 THEN 5
          ELSE IF b >= 2 THEN 6 ELSE IF b >= 1 THEN 7 ELSE 8

\* u32::leading_zeros, on the little-endian bytes of the value.
leading_zeros(v) ==
    IF v[4] # 0 THEN Lz8(v[4])
    ELSE IF v[3] # 0 THEN 8 + Lz8(v[3])
    ELSE IF v[2] # 0 THEN 16 + Lz8(v[2])
    ELSE 24 + Lz8(v[1])

\* A plausible slip: the scan runs from index 0 up (the .rev() forgotten).
RECURSIVE isrv_scan_forward(_, _)
isrv_scan_forward(isr, i) ==
    IF i > 7 THEN 0
    ELSE IF isr[i] # U32Zero THEN (31 - leading_zeros(isr[i])) + i * 4 * 8
    ELSE isrv_scan_forward(isr, i + 1)

isrv_forward(isr) == isrv_scan_forward(isr, 0)

\* Lines 612-620: for i in (0..8).rev() { if val != 0 { isrv = 31 - lz; isrv += i*4*8;
\* break } }, from index i down; 0 when no word is set.
RECURSIVE isrv_scan(_, _)
isrv_scan(isr, i) ==
    IF i < 0 THEN 0
    ELSE IF isr[i] # U32Zero THEN (31 - leading_zeros(isr[i])) + i * 4 * 8
    ELSE isrv_scan(isr, i - 1)

isrv(isr) == isrv_scan(isr, 7)

\* Lines 602-609: the ISR/TMR/IRR stores of loop iterations i..7, in program order.
RECURSIVE VectorWrites(_, _)
VectorWrites(hv, i) ==
    IF i > 7 THEN << >>
    ELSE << <<LOCAL_APIC_OFFSET_ISR + i * 16, hv.apic_isr[i]>>,
            <<LOCAL_APIC_OFFSET_TMR + i * 16, hv.apic_tmr[i]>>,
            <<LOCAL_APIC_OFFSET_IRR + i * 16, hv.apic_irr[i]>> >>
         \o VectorWrites(hv, i + 1)

\* A plausible slip: LOCAL_APIC_OFFSET_ERROR and LOCAL_APIC_OFFSET_ERROR_LVT taken for
\* each other.
LapicDecodeWrites_error_mixup(hv) ==
    << <<LOCAL_APIC_OFFSET_APIC_ID, hv.apic_id>>,
       <<LOCAL_APIC_OFFSET_VERSION, hv.apic_version>>,
       <<LOCAL_APIC_OFFSET_REMOTE_READ, hv.apic_remote_read>>,
       <<LOCAL_APIC_OFFSET_LDR, hv.apic_ldr>>,
       <<LOCAL_APIC_OFFSET_DFR, hv.apic_dfr>>,
       <<LOCAL_APIC_OFFSET_SPURIOUS, hv.apic_spurious>>,
       <<LOCAL_APIC_OFFSET_ERROR_LVT, hv.apic_esr>>,
       <<LOCAL_APIC_OFFSET_ICR_LOW, hv.apic_icr_low>>,
       <<LOCAL_APIC_OFFSET_ICR_HIGH, hv.apic_icr_high>>,
       <<LOCAL_APIC_OFFSET_TIMER_LVT, hv.apic_lvt_timer>>,
       <<LOCAL_APIC_OFFSET_THERMAL_LVT, hv.apic_lvt_thermal>>,
       <<LOCAL_APIC_OFFSET_PERFMON_LVT, hv.apic_lvt_perfmon>>,
       <<LOCAL_APIC_OFFSET_LINT0_LVT, hv.apic_lvt_lint0>>,
       <<LOCAL_APIC_OFFSET_LINT1_LVT, hv.apic_lvt_lint1>>,
       <<LOCAL_APIC_OFFSET_ERROR, hv.apic_lvt_error>>,
       <<LOCAL_APIC_OFFSET_INITIAL_COUNT, hv.apic_initial_count>>,
       <<LOCAL_APIC_OFFSET_CURRENT_COUNT, hv.apic_counter_value>>,
       <<LOCAL_APIC_OFFSET_DIVIDER, hv.apic_divide_configuration>> >>
    \o VectorWrites(hv, 0)
    \o << <<LOCAL_APIC_OFFSET_PPR, ToU32(isrv(hv.apic_isr))>> >>

\* Lines 579-623: every store of the decode, <<offset, value>>, in program order.
LapicDecodeWrites(hv) ==
    << <<LOCAL_APIC_OFFSET_APIC_ID, hv.apic_id>>,
       <<LOCAL_APIC_OFFSET_VERSION, hv.apic_version>>,
       <<LOCAL_APIC_OFFSET_REMOTE_READ, hv.apic_remote_read>>,
       <<LOCAL_APIC_OFFSET_LDR, hv.apic_ldr>>,
       <<LOCAL_APIC_OFFSET_DFR, hv.apic_dfr>>,
       <<LOCAL_APIC_OFFSET_SPURIOUS, hv.apic_spurious>>,
       <<LOCAL_APIC_OFFSET_ERROR, hv.apic_esr>>,
       <<LOCAL_APIC_OFFSET_ICR_LOW, hv.apic_icr_low>>,
       <<LOCAL_APIC_OFFSET_ICR_HIGH, hv.apic_icr_high>>,
       <<LOCAL_APIC_OFFSET_TIMER_LVT, hv.apic_lvt_timer>>,
       <<LOCAL_APIC_OFFSET_THERMAL_LVT, hv.apic_lvt_thermal>>,
       <<LOCAL_APIC_OFFSET_PERFMON_LVT, hv.apic_lvt_perfmon>>,
       <<LOCAL_APIC_OFFSET_LINT0_LVT, hv.apic_lvt_lint0>>,
       <<LOCAL_APIC_OFFSET_LINT1_LVT, hv.apic_lvt_lint1>>,
       <<LOCAL_APIC_OFFSET_ERROR_LVT, hv.apic_lvt_error>>,
       <<LOCAL_APIC_OFFSET_INITIAL_COUNT, hv.apic_initial_count>>,
       <<LOCAL_APIC_OFFSET_CURRENT_COUNT, hv.apic_counter_value>>,
       <<LOCAL_APIC_OFFSET_DIVIDER, hv.apic_divide_configuration>> >>
    \o VectorWrites(hv, 0)
    \o << <<LOCAL_APIC_OFFSET_PPR, ToU32(isrv(hv.apic_isr))>> >>

\* The stores applied to regs one after the other, from the k-th on.
RECURSIVE ApplyWrites(_, _, _)
ApplyWrites(regs, writes, k) ==
    IF k > Len(writes) THEN regs
    ELSE ApplyWrites(WriteU32(regs, writes[k][1], writes[k][2]), writes, k + 1)

\* A plausible slip: <= for <, so a buffer of exactly the record's size is rejected.
LapicState_try_from_le(buf) ==
    IF buf.size <= HV_LAPIC_STATE_SIZE
    THEN [ok |-> FALSE, err |-> "EINVAL", regs |-> << >>]
    ELSE [ok |-> TRUE, err |-> "none",
          regs |-> ApplyWrites(LapicState_default, LapicDecodeWrites(buf.hv), 1)]

\* impl TryFrom<Buffer> for LapicState, lines 568-627.  buf is the raw Buffer:
\* its size and, as hv, the hv_local_interrupt_controller_state its bytes hold.
LapicState_try_from(buf) ==
    IF buf.size < HV_LAPIC_STATE_SIZE
    THEN [ok |-> FALSE, err |-> "EINVAL", regs |-> << >>]
    ELSE [ok |-> TRUE, err |-> "none",
          regs |-> ApplyWrites(LapicState_default, LapicDecodeWrites(buf.hv), 1)]

\* A plausible slip: apic_icr_low and apic_icr_high read from each other's offset.
Buffer_hv_state_from_swapped(regs) ==
    [apic_id |-> ReadU32(regs, LOCAL_APIC_OFFSET_APIC_ID),
     apic_version |-> ReadU32(regs, LOCAL_APIC_OFFSET_VERSION),
     apic_remote_read |-> ReadU32(regs, LOCAL_APIC_OFFSET_REMOTE_READ),
     apic_ldr |-> ReadU32(regs, LOCAL_APIC_OFFSET_LDR),
     apic_dfr |-> ReadU32(regs, LOCAL_APIC_OFFSET_DFR),
     apic_spurious |-> ReadU32(regs, LOCAL_APIC_OFFSET_SPURIOUS),
     apic_esr |-> ReadU32(regs, LOCAL_APIC_OFFSET_ERROR),
     apic_icr_low |-> ReadU32(regs, LOCAL_APIC_OFFSET_ICR_HIGH),
     apic_icr_high |-> ReadU32(regs, LOCAL_APIC_OFFSET_ICR_LOW),
     apic_lvt_timer |-> ReadU32(regs, LOCAL_APIC_OFFSET_TIMER_LVT),
     apic_lvt_thermal |-> ReadU32(regs, LOCAL_APIC_OFFSET_THERMAL_LVT),
     apic_lvt_perfmon |-> ReadU32(regs, LOCAL_APIC_OFFSET_PERFMON_LVT),
     apic_lvt_lint0 |-> ReadU32(regs, LOCAL_APIC_OFFSET_LINT0_LVT),
     apic_lvt_lint1 |-> ReadU32(regs, LOCAL_APIC_OFFSET_LINT1_LVT),
     apic_lvt_error |-> ReadU32(regs, LOCAL_APIC_OFFSET_ERROR_LVT),
     apic_initial_count |-> ReadU32(regs, LOCAL_APIC_OFFSET_INITIAL_COUNT),
     apic_counter_value |-> ReadU32(regs, LOCAL_APIC_OFFSET_CURRENT_COUNT),
     apic_divide_configuration |-> ReadU32(regs, LOCAL_APIC_OFFSET_DIVIDER),
     apic_error_status |-> U32Zero,
     apic_lvt_cmci |-> U32Zero,
     apic_isr |-> [i \in 0..7 |-> ReadU32(regs, LOCAL_APIC_OFFSET_ISR + i * 16)],
     apic_tmr |-> [i \in 0..7 |-> ReadU32(regs, LOCAL_APIC_OFFSET_TMR + i * 16)],
     apic_irr |-> [i \in 0..7 |-> ReadU32(regs, LOCAL_APIC_OFFSET_IRR + i * 16)]]

\* Lines 636-674: the hv_local_interrupt_controller_state written to the new
\* buffer: the struct literal, then the loop filling the three arrays.
Buffer_hv_state_from(regs) ==
    [apic_id |-> ReadU32(regs, LOCAL_APIC_OFFSET_APIC_ID),
     apic_version |-> ReadU32(regs, LOCAL_APIC_OFFSET_VERSION),
     apic_remote_read |-> ReadU32(regs, LOCAL_APIC_OFFSET_REMOTE_READ),
     apic_ldr |-> ReadU32(regs, LOCAL_APIC_OFFSET_LDR),
     apic_dfr |-> ReadU32(regs, LOCAL_APIC_OFFSET_DFR),
     apic_spurious |-> ReadU32(regs, LOCAL_APIC_OFFSET_SPURIOUS),
     apic_esr |-> ReadU32(regs, LOCAL_APIC_OFFSET_ERROR),
     apic_icr_low |-> ReadU32(regs, LOCAL_APIC_OFFSET_ICR_LOW),
     apic_icr_high |-> ReadU32(regs, LOCAL_APIC_OFFSET_ICR_HIGH),
     apic_lvt_timer |-> ReadU32(regs, LOCAL_APIC_OFFSET_TIMER_LVT),
     apic_lvt_thermal |-> ReadU32(regs, LOCAL_APIC_OFFSET_THERMAL_LVT),
     apic_lvt_perfmon |-> ReadU32(regs, LOCAL_APIC_OFFSET_PERFMON_LVT),
     apic_lvt_lint0 |-> ReadU32(regs, LOCAL_APIC_OFFSET_LINT0_LVT),
     apic_lvt_lint1 |-> ReadU32(regs, LOCAL_APIC_OFFSET_LINT1_LVT),
     apic_lvt_error |-> ReadU32(regs, LOCAL_APIC_OFFSET_ERROR_LVT),
     apic_initial_count |-> ReadU32(regs, LOCAL_APIC_OFFSET_INITIAL_COUNT),
     apic_counter_value |-> ReadU32(regs, LOCAL_APIC_OFFSET_CURRENT_COUNT),
     apic_divide_configuration |-> ReadU32(regs, LOCAL_APIC_OFFSET_DIVIDER),
     apic_error_status |-> U32Zero,
     apic_lvt_cmci |-> U32Zero,
     apic_isr |-> [i \in 0..7 |-> ReadU32(regs, LOCAL_APIC_OFFSET_ISR + i * 16)],
     apic_tmr |-> [i \in 0..7 |-> ReadU32(regs, LOCAL_APIC_OFFSET_TMR + i * 16)],
     apic_irr |-> [i \in 0..7 |-> ReadU32(regs, LOCAL_APIC_OFFSET_IRR + i * 16)]]

\* Whether Buffer::new(size, align)? goes on: the layout is valid and the
\* allocator returned the (non-null) block p.
BufferNewOk(size, align, p) ==
    LayoutFromSizeAlign(size, align).ok /\ p # 0

\* Lines 632-634: the size asked of Buffer::new, num_pages * HV_PAGE_SIZE.
LapicBufferSize ==
    LET hv_state_size == HV_LAPIC_STATE_SIZE
        num_pages == ShiftRightPage(hv_state_size + HV_PAGE_SIZE - 1)
    IN num_pages * HV_PAGE_SIZE

\* impl TryFrom<&LapicState> for Buffer, lines 629-678; p is what the allocator
\* returns to Buffer::new.
Buffer_try_from_LapicState(regs, p) ==
    LET size == LapicBufferSize
    IN IF ~BufferNewOk(size, HV_PAGE_SIZE, p)
       THEN [ok |-> FALSE, err |-> "ENOMEM", size |-> 0, align |-> 0,
             hv |-> hv_lapic_zero, bytes |-> << >>]
       ELSE [ok |-> TRUE, err |-> "none", size |-> size, align |-> HV_PAGE_SIZE,
             hv |-> Buffer_hv_state_from(regs), bytes |-> << >>]

\* ------------------------------------------------------------------------
\* XSAVE codec
\* ------------------------------------------------------------------------
\* ptr::copy(src, dst, count): the first count bytes of dst become those of src.
PtrCopy(src, dst, count) ==
    [k \in DOMAIN dst |-> IF k < count THEN src[k] ELSE dst[k]]

\* A plausible slip: <= for <, so a buffer of exactly 4096 bytes is rejected.
XSave_try_from_le(buf) ==
    LET ret_size == XSAVE_BUFFER_SIZE IN
    IF ret_size <= buf.size
    THEN [ok |-> FALSE, err |-> "EINVAL", buffer |-> << >>]
    ELSE [ok |-> TRUE, err |-> "none",
          buffer |-> PtrCopy(buf.bytes, XSave_default, buf.size)]

\* impl TryFrom<Buffer> for XSave, lines 540-554.
XSave_try_from(buf) ==
    LET ret_size == XSAVE_BUFFER_SIZE IN
    IF ret_size < buf.size
    THEN [ok |-> FALSE, err |-> "EINVAL", buffer |-> << >>]
    ELSE [ok |-> TRUE, err |-> "none",
          buffer |-> PtrCopy(buf.bytes, XSave_default, buf.size)]

\* Lines 559-561: the size asked of Buffer::new, num_pages * HV_PAGE_SIZE.
\* The size computed as whole pages plus one, not rounded up.
XSaveBufferSize_extra_page ==
    LET reg_size == XSAVE_BUFFER_SIZE
        num_pages == ShiftRightPage(reg_size) + 1
    IN num_pages * HV_PAGE_SIZE

XSaveBufferSize ==
    LET reg_size == XSAVE_BUFFER_SIZE
        num_pages == ShiftRightPage(reg_size + HV_PAGE_SIZE - 1)
    IN num_pages * HV_PAGE_SIZE

\* impl TryFrom<&XSave> for Buffer, lines 556-566; p is what the allocator returns,
\* uninit the byte the block it returns is filled with.
Buffer_try_from_XSave(reg, p, uninit) ==
    LET reg_size == XSAVE_BUFFER_SIZE
        size == XSaveBufferSize
    IN IF ~BufferNewOk(size, HV_PAGE_SIZE, p)
       THEN [ok |-> FALSE, err |-> "ENOMEM", size |-> 0, align |-> 0,
             hv |-> hv_lapic_zero, bytes |-> << >>]
       ELSE [ok |-> TRUE, err |-> "none", size |-> size, align |-> HV_PAGE_SIZE,
             hv |-> hv_lapic_zero,
             bytes |-> PtrCopy(reg, [k \in 0..(size - 1) |-> uninit], reg_size)]

\* ------------------------------------------------------------------------
\* VP-state component directory
\* ------------------------------------------------------------------------
\* The directory's buffer and the external Buffer's bytes are sequences: the byte at
\* address k is element k + 1.
ZeroBytes(n) == [k \in 1..n |-> 0]

\* A plausible slip: one byte too few is copied.
MemCopy_short(src, srcOff, dst, dstOff, count) ==
    SubSeq(dst, 1, dstOff)
    \o SubSeq(src, srcOff + 1, srcOff + count - 1)
    \o SubSeq(dst, dstOff + count, Len(dst))

\* ptr::copy(src + srcOff, dst + dstOff, count): count bytes of dst from address
\* dstOff on become those of src from address srcOff on; src and dst are different
\* allocations.
MemCopy(src, srcOff, dst, dstOff, count) ==
    SubSeq(dst, 1, dstOff)
    \o SubSeq(src, srcOff + 1, srcOff + count)
    \o SubSeq(dst, dstOff + count + 1, Len(dst))

MSHV_VP_STATE_LAPIC == 0
MSHV_VP_STATE_XSAVE == 1
MSHV_VP_STATE_SIMP == 2
MSHV_VP_STATE_SIEFP == 3
MSHV_VP_STATE_SYNTHETIC_TIMERS == 4
MSHV_VP_STATE_COUNT == 5

\* size_of::<hv_synthetic_timers_state>()
HV_SYNTHETIC_TIMERS_STATE_SIZE == 200

\* const fn initialize_comp_sizes(), lines 708-723.
initialize_comp_sizes ==
    LET s0 == [i \in 0..(MSHV_VP_STATE_COUNT - 1) |-> 0]
        s1 == [s0 EXCEPT ![MSHV_VP_STATE_LAPIC] = LAPIC_REGS_SIZE]
        s2 == [s1 EXCEPT ![MSHV_VP_STATE_XSAVE] = XSAVE_BUFFER_SIZE]
        s3 == [s2 EXCEPT ![MSHV_VP_STATE_SIMP] = HV_PAGE_SIZE]
        s4 == [s3 EXCEPT ![MSHV_VP_STATE_SIEFP] = HV_PAGE_SIZE]
        s5 == [s4 EXCEPT ![MSHV_VP_STATE_SYNTHETIC_TIMERS] = HV_SYNTHETIC_TIMERS_STATE_SIZE]
    IN s5

\* Line 731.
VP_STATE_COMP_SIZES == initialize_comp_sizes

\* Lines 733-738.
VP_STATE_COMPONENTS_BUFFER_SIZE ==
    VP_STATE_COMP_SIZES[MSHV_VP_STATE_LAPIC]
    + VP_STATE_COMP_SIZES[MSHV_VP_STATE_XSAVE]
    + VP_STATE_COMP_SIZES[MSHV_VP_STATE_SIMP]
    + VP_STATE_COMP_SIZES[MSHV_VP_STATE_SIEFP]
    + VP_STATE_COMP_SIZES[MSHV_VP_STATE_SYNTHETIC_TIMERS]

\* VP_STATE_COMP_SIZES[0..n].iter().copied().sum()
RECURSIVE SumSizes(_)
SumSizes(n) == IF n = 0 THEN 0 ELSE SumSizes(n - 1) + VP_STATE_COMP_SIZES[n - 1]

\* A plausible slip: the slice taken as 0..=index.
get_vp_state_comp_start_offset_inclusive(index) == SumSizes(index + 1)

\* fn get_vp_state_comp_start_offset(index), lines 741-743.
get_vp_state_comp_start_offset(index) == SumSizes(index)

\* AllVpStateComponents::default(): mem::zeroed.
AllVpStateComponents_default == ZeroBytes(VP_STATE_COMPONENTS_BUFFER_SIZE)

\* The call panicked: self and buffer are as they were.
CopyPanic(self, buffer) ==
    [panicked |-> TRUE, self |-> self, buffer |-> buffer, start |-> 0, end |-> 0, len |-> 0]

\* A plausible slip: a short buffer gets as many bytes as it holds, with no panic.
copy_to_or_from_buffer_truncating(self, index, buffer, to_buffer) ==
    IF index >= MSHV_VP_STATE_COUNT
    THEN CopyPanic(self, buffer)
    ELSE
    LET len == IF VP_STATE_COMP_SIZES[index] > buffer.size
               THEN buffer.size ELSE VP_STATE_COMP_SIZES[index]
        start == get_vp_state_comp_start_offset(index)
        end == start + len
    IN IF to_buffer
       THEN [panicked |-> FALSE, self |-> self,
             buffer |-> [buffer EXCEPT !.bytes = MemCopy(self, start, buffer.bytes, 0, len)],
             start |-> start, end |-> end, len |-> len]
       ELSE [panicked |-> FALSE,
             self |-> MemCopy(buffer.bytes, 0, self, start, len),
             buffer |-> buffer, start |-> start, end |-> end, len |-> len]

\* A plausible slip: buffer.size() bytes moved (as far as the directory reaches), not
\* len.
copy_to_or_from_buffer_buffer_size(self, index, buffer, to_buffer) ==
    IF index >= MSHV_VP_STATE_COUNT
    THEN CopyPanic(self, buffer)
    ELSE
    LET len == VP_STATE_COMP_SIZES[index] IN
    IF len > buffer.size
    THEN CopyPanic(self, buffer)
    ELSE
    LET start == get_vp_state_comp_start_offset(index)
        end == start + len
        count == IF buffer.size <= VP_STATE_COMPONENTS_BUFFER_SIZE - start
                 THEN buffer.size ELSE VP_STATE_COMPONENTS_BUFFER_SIZE - start
    IN IF end > VP_STATE_COMPONENTS_BUFFER_SIZE
       THEN CopyPanic(self, buffer)
       ELSE IF to_buffer
       THEN [panicked |-> FALSE, self |-> self,
             buffer |-> [buffer EXCEPT !.bytes = MemCopy(self, start, buffer.bytes, 0, count)],
             start |-> start, end |-> end, len |-> len]
       ELSE [panicked |-> FALSE,
             self |-> MemCopy(buffer.bytes, 0, self, start, count),
             buffer |-> buffer, start |-> start, end |-> end, len |-> len]

\* A plausible slip: the two branches of `if to_buffer` exchanged.
copy_to_or_from_buffer_flipped(self, index, buffer, to_buffer) ==
    IF index >= MSHV_VP_STATE_COUNT
    THEN CopyPanic(self, buffer)
    ELSE
    LET len == VP_STATE_COMP_SIZES[index] IN
    IF len > buffer.size
    THEN CopyPanic(self, buffer)
    ELSE
    LET start == get_vp_state_comp_start_offset(index)
        end == start + len
    IN IF end > VP_STATE_COMPONENTS_BUFFER_SIZE
       THEN CopyPanic(self, buffer)
       ELSE IF ~to_buffer
       THEN [panicked |-> FALSE, self |-> self,
             buffer |-> [buffer EXCEPT !.bytes = MemCopy(self, start, buffer.bytes, 0, len)],
             start |-> start, end |-> end, len |-> len]
       ELSE [panicked |-> FALSE,
             self |-> MemCopy(buffer.bytes, 0, self, start, len),
             buffer |-> buffer, start |-> start, end |-> end, len |-> len]

\* AllVpStateComponents::copy_to_or_from_buffer(&mut self, index, buffer, to_buffer),
\* lines 763-780.  self is the directory's buffer, buffer the external Buffer (its
\* size and bytes).  VP_STATE_COMP_SIZES[index] and self.buffer[start..end] are
\* bounds-checked: out of range, they panic.
copy_to_or_from_buffer(self, index, buffer, to_buffer) ==
    IF index >= MSHV_VP_STATE_COUNT
    THEN CopyPanic(self, buffer)
    ELSE
    LET len == VP_STATE_COMP_SIZES[index] IN
    IF len > buffer.size
    THEN CopyPanic(self, buffer)
    ELSE
    LET start == get_vp_state_comp_start_offset(index)
        end == start + len
    IN IF end > VP_STATE_COMPONENTS_BUFFER_SIZE
       THEN CopyPanic(self, buffer)
       ELSE IF to_buffer
       THEN [panicked |-> FALSE, self |-> self,
             buffer |-> [buffer EXCEPT !.bytes = MemCopy(self, start, buffer.bytes, 0, len)],
             start |-> start, end |-> end, len |-> len]
       ELSE [panicked |-> FALSE,
             self |-> MemCopy(buffer.bytes, 0, self, start, len),
             buffer |-> buffer, start |-> start, end |-> end, len |-> len]

\* ------------------------------------------------------------------------
\* MSR resolver and MSR set builder
\* ------------------------------------------------------------------------
\* An MSR index is a u32, kept as <<high 16 bits, low 16 bits>>: indices such as
\* 0xC0000080 do not fit TLC's integers.
\* pub const IA32_MSR_* / MSR_IA32_*: u32, lines 223-282.
MsrConst ==
    [IA32_MSR_TSC |-> <<0, 16>>,
     IA32_MSR_EFER |-> <<49152, 128>>,
     IA32_MSR_KERNEL_GS_BASE |-> <<49152, 258>>,
     IA32_MSR_APIC_BASE |-> <<0, 27>>,
     IA32_MSR_PAT |-> <<0, 631>>,
     IA32_MSR_SYSENTER_CS |-> <<0, 372>>,
     IA32_MSR_SYSENTER_ESP |-> <<0, 373>>,
     IA32_MSR_SYSENTER_EIP |-> <<0, 374>>,
     IA32_MSR_STAR |-> <<49152, 129>>,
     IA32_MSR_LSTAR |-> <<49152, 130>>,
     IA32_MSR_CSTAR |-> <<49152, 131>>,
     IA32_MSR_SFMASK |-> <<49152, 132>>,
     IA32_MSR_MTRR_CAP |-> <<0, 254>>,
     IA32_MSR_MTRR_DEF_TYPE |-> <<0, 767>>,
     IA32_MSR_MTRR_PHYSBASE0 |-> <<0, 512>>,
     IA32_MSR_MTRR_PHYSMASK0 |-> <<0, 513>>,
     IA32_MSR_MTRR_PHYSBASE1 |-> <<0, 514>>,
     IA32_MSR_MTRR_PHYSMASK1 |-> <<0, 515>>,
     IA32_MSR_MTRR_PHYSBASE2 |-> <<0, 516>>,
     IA32_MSR_MTRR_PHYSMASK2 |-> <<0, 517>>,
     IA32_MSR_MTRR_PHYSBASE3 |-> <<0, 518>>,
     IA32_MSR_MTRR_PHYSMASK3 |-> <<0, 519>>,
     IA32_MSR_MTRR_PHYSBASE4 |-> <<0, 520>>,
     IA32_MSR_MTRR_PHYSMASK4 |-> <<0, 521>>,
     IA32_MSR_MTRR_PHYSBASE5 |-> <<0, 522>>,
     IA32_MSR_MTRR_PHYSMASK5 |-> <<0, 523>>,
     IA32_MSR_MTRR_PHYSBASE6 |-> <<0, 524>>,
     IA32_MSR_MTRR_PHYSMASK6 |-> <<0, 525>>,
     IA32_MSR_MTRR_PHYSBASE7 |-> <<0, 526>>,
     IA32_MSR_MTRR_PHYSMASK7 |-> <<0, 527>>,
     IA32_MSR_MTRR_FIX64K_00000 |-> <<0, 592>>,
     IA32_MSR_MTRR_FIX16K_80000 |-> <<0, 600>>,
     IA32_MSR_MTRR_FIX16K_A0000 |-> <<0, 601>>,
     IA32_MSR_MTRR_FIX4K_C0000 |-> <<0, 616>>,
     IA32_MSR_MTRR_FIX4K_C8000 |-> <<0, 617>>,
     IA32_MSR_MTRR_FIX4K_D0000 |-> <<0, 618>>,
     IA32_MSR_MTRR_FIX4K_D8000 |-> <<0, 619>>,
     IA32_MSR_MTRR_FIX4K_E0000 |-> <<0, 620>>,
     IA32_MSR_MTRR_FIX4K_E8000 |-> <<0, 621>>,
     IA32_MSR_MTRR_FIX4K_F0000 |-> <<0, 622>>,
     IA32_MSR_MTRR_FIX4K_F8000 |-> <<0, 623>>,
     IA32_MSR_TSC_AUX |-> <<49152, 259>>,
     IA32_MSR_BNDCFGS |-> <<0, 3472>>,
     IA32_MSR_DEBUG_CTL |-> <<0, 473>>,
     IA32_MSR_SPEC_CTRL |-> <<0, 72>>,
     IA32_MSR_TSC_ADJUST |-> <<0, 59>>,
     IA32_MSR_MISC_ENABLE |-> <<0, 416>>,
     MSR_IA32_SSP |-> <<0, 1952>>,
     MSR_IA32_U_CET |-> <<0, 1696>>,
     MSR_IA32_S_CET |-> <<0, 1698>>,
     MSR_IA32_PL0_SSP |-> <<0, 1700>>,
     MSR_IA32_PL1_SSP |-> <<0, 1701>>,
     MSR_IA32_PL2_SSP |-> <<0, 1702>>,
     MSR_IA32_PL3_SSP |-> <<0, 1703>>,
     MSR_IA32_INTERRUPT_SSP_TABLE_ADDR |-> <<0, 1704>>,
     MSR_IA32_REGISTER_U_XSS |-> <<8, 139>>]

\* HV_X64_MSR_*: the synthetic MSR indices of the hypervisor interface.
HvMsrConst ==
    [HV_X64_MSR_GUEST_OS_ID |-> <<16384, 0>>,
     HV_X64_MSR_REFERENCE_TSC |-> <<16384, 33>>,
     HV_X64_MSR_SCONTROL |-> <<16384, 128>>,
     HV_X64_MSR_SIEFP |-> <<16384, 130>>,
     HV_X64_MSR_SIMP |-> <<16384, 131>>,
     HV_X64_MSR_EOM |-> <<16384, 132>>,
     HV_X64_MSR_SINT0 |-> <<16384, 144>>,
     HV_X64_MSR_SINT1 |-> <<16384, 145>>,
     HV_X64_MSR_SINT2 |-> <<16384, 146>>,
     HV_X64_MSR_SINT3 |-> <<16384, 147>>,
     HV_X64_MSR_SINT4 |-> <<16384, 148>>,
     HV_X64_MSR_SINT5 |-> <<16384, 149>>,
     HV_X64_MSR_SINT6 |-> <<16384, 150>>,
     HV_X64_MSR_SINT7 |-> <<16384, 151>>,
     HV_X64_MSR_SINT8 |-> <<16384, 152>>,
     HV_X64_MSR_SINT9 |-> <<16384, 153>>,
     HV_X64_MSR_SINT10 |-> <<16384, 154>>,
     HV_X64_MSR_SINT11 |-> <<16384, 155>>,
     HV_X64_MSR_SINT12 |-> <<16384, 156>>,
     HV_X64_MSR_SINT13 |-> <<16384, 157>>,
     HV_X64_MSR_SINT14 |-> <<16384, 158>>,
     HV_X64_MSR_SINT15 |-> <<16384, 159>>]

\* The arms of the match in msr_to_hv_reg_name, in source order: the pattern and
\* the hv_register_name_* constant of the Ok value (kept by name).
MsrArms ==
    <<<<MsrConst.IA32_MSR_TSC, "HV_X64_REGISTER_TSC">>,
      <<MsrConst.IA32_MSR_EFER, "HV_X64_REGISTER_EFER">>,
      <<MsrConst.IA32_MSR_KERNEL_GS_BASE, "HV_X64_REGISTER_KERNEL_GS_BASE">>,
      <<MsrConst.IA32_MSR_APIC_BASE, "HV_X64_REGISTER_APIC_BASE">>,
      <<MsrConst.IA32_MSR_PAT, "HV_X64_REGISTER_PAT">>,
      <<MsrConst.IA32_MSR_SYSENTER_CS, "HV_X64_REGISTER_SYSENTER_CS">>,
      <<MsrConst.IA32_MSR_SYSENTER_ESP, "HV_X64_REGISTER_SYSENTER_ESP">>,
      <<MsrConst.IA32_MSR_SYSENTER_EIP, "HV_X64_REGISTER_SYSENTER_EIP">>,
      <<MsrConst.IA32_MSR_STAR, "HV_X64_REGISTER_STAR">>,
      <<MsrConst.IA32_MSR_LSTAR, "HV_X64_REGISTER_LSTAR">>,
      <<MsrConst.IA32_MSR_CSTAR, "HV_X64_REGISTER_CSTAR">>,
      <<MsrConst.IA32_MSR_SFMASK, "HV_X64_REGISTER_SFMASK">>,
      <<MsrConst.IA32_MSR_MTRR_CAP, "HV_X64_REGISTER_MSR_MTRR_CAP">>,
      <<MsrConst.IA32_MSR_MTRR_DEF_TYPE, "HV_X64_REGISTER_MSR_MTRR_DEF_TYPE">>,
      <<MsrConst.IA32_MSR_MTRR_PHYSBASE0, "HV_X64_REGISTER_MSR_MTRR_PHYS_BASE0">>,
      <<MsrConst.IA32_MSR_MTRR_PHYSMASK0, "HV_X64_REGISTER_MSR_MTRR_PHYS_MASK0">>,
      <<MsrConst.IA32_MSR_MTRR_PHYSBASE1, "HV_X64_REGISTER_MSR_MTRR_PHYS_BASE1">>,
      <<MsrConst.IA32_MSR_MTRR_PHYSMASK1, "HV_X64_REGISTER_MSR_MTRR_PHYS_MASK1">>,
      <<MsrConst.IA32_MSR_MTRR_PHYSBASE2, "HV_X64_REGISTER_MSR_MTRR_PHYS_BASE2">>,
      <<MsrConst.IA32_MSR_MTRR_PHYSMASK2, "HV_X64_REGISTER_MSR_MTRR_PHYS_MASK2">>,
      <<MsrConst.IA32_MSR_MTRR_PHYSBASE3, "HV_X64_REGISTER_MSR_MTRR_PHYS_BASE3">>,
      <<MsrConst.IA32_MSR_MTRR_PHYSMASK3, "HV_X64_REGISTER_MSR_MTRR_PHYS_MASK3">>,
      <<MsrConst.IA32_MSR_MTRR_PHYSBASE4, "HV_X64_REGISTER_MSR_MTRR_PHYS_BASE4">>,
      <<MsrConst.IA32_MSR_MTRR_PHYSMASK4, "HV_X64_REGISTER_MSR_MTRR_PHYS_MASK4">>,
      <<MsrConst.IA32_MSR_MTRR_PHYSBASE5, "HV_X64_REGISTER_MSR_MTRR_PHYS_BASE5">>,
      <<MsrConst.IA32_MSR_MTRR_PHYSMASK5, "HV_X64_REGISTER_MSR_MTRR_PHYS_MASK5">>,
      <<MsrConst.IA32_MSR_MTRR_PHYSBASE6, "HV_X64_REGISTER_MSR_MTRR_PHYS_BASE6">>,
      <<MsrConst.IA32_MSR_MTRR_PHYSMASK6, "HV_X64_REGISTER_MSR_MTRR_PHYS_MASK6">>,
      <<MsrConst.IA32_MSR_MTRR_PHYSBASE7, "HV_X64_REGISTER_MSR_MTRR_PHYS_BASE7">>,
      <<MsrConst.IA32_MSR_MTRR_PHYSMASK7, "HV_X64_REGISTER_MSR_MTRR_PHYS_MASK7">>,
      <<MsrConst.IA32_MSR_MTRR_FIX64K_00000, "HV_X64_REGISTER_MSR_MTRR_FIX64K00000">>,
      <<MsrConst.IA32_MSR_MTRR_FIX16K_80000, "HV_X64_REGISTER_MSR_MTRR_FIX16K80000">>,
      <<MsrConst.IA32_MSR_MTRR_FIX16K_A0000, "HV_X64_REGISTER_MSR_MTRR_FIX16KA0000">>,
      <<MsrConst.IA32_MSR_MTRR_FIX4K_C0000, "HV_X64_REGISTER_MSR_MTRR_FIX4KC0000">>,
      <<MsrConst.IA32_MSR_MTRR_FIX4K_C8000, "HV_X64_REGISTER_MSR_MTRR_FIX4KC8000">>,
      <<MsrConst.IA32_MSR_MTRR_FIX4K_D0000, "HV_X64_REGISTER_MSR_MTRR_FIX4KD0000">>,
      <<MsrConst.IA32_MSR_MTRR_FIX4K_D8000, "HV_X64_REGISTER_MSR_MTRR_FIX4KD8000">>,
      <<MsrConst.IA32_MSR_MTRR_FIX4K_E0000, "HV_X64_REGISTER_MSR_MTRR_FIX4KE0000">>,
      <<MsrConst.IA32_MSR_MTRR_FIX4K_E8000, "HV_X64_REGISTER_MSR_MTRR_FIX4KE8000">>,
      <<MsrConst.IA32_MSR_MTRR_FIX4K_F0000, "HV_X64_REGISTER_MSR_MTRR_FIX4KF0000">>,
      <<MsrConst.IA32_MSR_MTRR_FIX4K_F8000, "HV_X64_REGISTER_MSR_MTRR_FIX4KF8000">>,
      <<MsrConst.IA32_MSR_TSC_AUX, "HV_X64_REGISTER_TSC_AUX">>,
      <<MsrConst.IA32_MSR_BNDCFGS, "HV_X64_REGISTER_BNDCFGS">>,
      <<MsrConst.IA32_MSR_DEBUG_CTL, "HV_X64_REGISTER_DEBUG_CTL">>,
      <<MsrConst.IA32_MSR_TSC_ADJUST, "HV_X64_REGISTER_TSC_ADJUST">>,
      <<MsrConst.IA32_MSR_SPEC_CTRL, "HV_X64_REGISTER_SPEC_CTRL">>,
      <<HvMsrConst.HV_X64_MSR_GUEST_OS_ID, "HV_REGISTER_GUEST_OS_ID">>,
      <<HvMsrConst.HV_X64_MSR_SINT0, "HV_REGISTER_SINT0">>,
      <<HvMsrConst.HV_X64_MSR_SINT1, "HV_REGISTER_SINT1">>,
      <<HvMsrConst.HV_X64_MSR_SINT2, "HV_REGISTER_SINT2">>,
      <<HvMsrConst.HV_X64_MSR_SINT3, "HV_REGISTER_SINT3">>,
      <<HvMsrConst.HV_X64_MSR_SINT4, "HV_REGISTER_SINT4">>,
      <<HvMsrConst.HV_X64_MSR_SINT5, "HV_REGISTER_SINT5">>,
      <<HvMsrConst.HV_X64_MSR_SINT6, "HV_REGISTER_SINT6">>,
      <<HvMsrConst.HV_X64_MSR_SINT7, "HV_REGISTER_SINT7">>,
      <<HvMsrConst.HV_X64_MSR_SINT8, "HV_REGISTER_SINT8">>,
      <<HvMsrConst.HV_X64_MSR_SINT9, "HV_REGISTER_SINT9">>,
      <<HvMsrConst.HV_X64_MSR_SINT10, "HV_REGISTER_SINT10">>,
      <<HvMsrConst.HV_X64_MSR_SINT11, "HV_REGISTER_SINT11">>,
      <<HvMsrConst.HV_X64_MSR_SINT12, "HV_REGISTER_SINT12">>,
      <<HvMsrConst.HV_X64_MSR_SINT13, "HV_REGISTER_SINT13">>,
      <<HvMsrConst.HV_X64_MSR_SINT14, "HV_REGISTER_SINT14">>,
      <<HvMsrConst.HV_X64_MSR_SINT15, "HV_REGISTER_SINT15">>,
      <<MsrConst.IA32_MSR_MISC_ENABLE, "HV_X64_REGISTER_MSR_IA32_MISC_ENABLE">>,
      <<HvMsrConst.HV_X64_MSR_SCONTROL, "HV_REGISTER_SCONTROL">>,
      <<HvMsrConst.HV_X64_MSR_SIEFP, "HV_REGISTER_SIEFP">>,
      <<HvMsrConst.HV_X64_MSR_SIMP, "HV_REGISTER_SIMP">>,
      <<HvMsrConst.HV_X64_MSR_REFERENCE_TSC, "HV_REGISTER_REFERENCE_TSC">>,
      <<HvMsrConst.HV_X64_MSR_EOM, "HV_REGISTER_EOM">>,
      <<MsrConst.MSR_IA32_REGISTER_U_XSS, "HV_X64_REGISTER_U_XSS">>,
      <<MsrConst.MSR_IA32_U_CET, "HV_X64_REGISTER_U_CET">>,
      <<MsrConst.MSR_IA32_S_CET, "HV_X64_REGISTER_S_CET">>,
      <<MsrConst.MSR_IA32_SSP, "HV_X64_REGISTER_SSP">>,
      <<MsrConst.MSR_IA32_PL0_SSP, "HV_X64_REGISTER_PL0_SSP">>,
      <<MsrConst.MSR_IA32_PL1_SSP, "HV_X64_REGISTER_PL1_SSP">>,
      <<MsrConst.MSR_IA32_PL2_SSP, "HV_X64_REGISTER_PL2_SSP">>,
      <<MsrConst.MSR_IA32_PL3_SSP, "HV_X64_REGISTER_PL3_SSP">>,
      <<MsrConst.MSR_IA32_INTERRUPT_SSP_TABLE_ADDR, "HV_X64_REGISTER_INTERRUPT_SSP_TABLE_ADDR">>>>

\* A plausible slip: a synthetic timer MSR listed, which the resolver has no arm for.
MSRS_SYNIC_with_stimer ==
    <<HvMsrConst.HV_X64_MSR_SINT0,
      HvMsrConst.HV_X64_MSR_SINT1,
      HvMsrConst.HV_X64_MSR_SINT2,
      HvMsrConst.HV_X64_MSR_SINT3,
      HvMsrConst.HV_X64_MSR_SINT4,
      HvMsrConst.HV_X64_MSR_SINT5,
      HvMsrConst.HV_X64_MSR_SINT6,
      HvMsrConst.HV_X64_MSR_SINT7,
      HvMsrConst.HV_X64_MSR_SINT8,
      HvMsrConst.HV_X64_MSR_SINT9,
      HvMsrConst.HV_X64_MSR_SINT10,
      HvMsrConst.HV_X64_MSR_SINT11,
      HvMsrConst.HV_X64_MSR_SINT12,
      HvMsrConst.HV_X64_MSR_SINT13,
      HvMsrConst.HV_X64_MSR_SINT14,
      HvMsrConst.HV_X64_MSR_SINT15,
      HvMsrConst.HV_X64_MSR_SCONTROL,
      HvMsrConst.HV_X64_MSR_SIEFP,
      HvMsrConst.HV_X64_MSR_SIMP,
      <<16384, 176>>>>

\* pub static MSRS_SYNIC: &[u32; 19], lines 811-831.
MSRS_SYNIC ==
    <<HvMsrConst.HV_X64_MSR_SINT0,
      HvMsrConst.HV_X64_MSR_SINT1,
      HvMsrConst.HV_X64_MSR_SINT2,
      HvMsrConst.HV_X64_MSR_SINT3,
      HvMsrConst.HV_X64_MSR_SINT4,
      HvMsrConst.HV_X64_MSR_SINT5,
      HvMsrConst.HV_X64_MSR_SINT6,
      HvMsrConst.HV_X64_MSR_SINT7,
      HvMsrConst.HV_X64_MSR_SINT8,
      HvMsrConst.HV_X64_MSR_SINT9,
      HvMsrConst.HV_X64_MSR_SINT10,
      HvMsrConst.HV_X64_MSR_SINT11,
      HvMsrConst.HV_X64_MSR_SINT12,
      HvMsrConst.HV_X64_MSR_SINT13,
      HvMsrConst.HV_X64_MSR_SINT14,
      HvMsrConst.HV_X64_MSR_SINT15,
      HvMsrConst.HV_X64_MSR_SCONTROL,
      HvMsrConst.HV_X64_MSR_SIEFP,
      HvMsrConst.HV_X64_MSR_SIMP>>

\* pub static MSRS_COMMON: &[u32; 42], lines 833-876.
MSRS_COMMON ==
    <<MsrConst.IA32_MSR_TSC,
      MsrConst.IA32_MSR_EFER,
      MsrConst.IA32_MSR_KERNEL_GS_BASE,
      MsrConst.IA32_MSR_APIC_BASE,
      MsrConst.IA32_MSR_PAT,
      MsrConst.IA32_MSR_SYSENTER_CS,
      MsrConst.IA32_MSR_SYSENTER_ESP,
      MsrConst.IA32_MSR_SYSENTER_EIP,
      MsrConst.IA32_MSR_STAR,
      MsrConst.IA32_MSR_LSTAR,
      MsrConst.IA32_MSR_CSTAR,
      MsrConst.IA32_MSR_SFMASK,
      MsrConst.IA32_MSR_MTRR_DEF_TYPE,
      MsrConst.IA32_MSR_MTRR_PHYSBASE0,
      MsrConst.IA32_MSR_MTRR_PHYSMASK0,
      MsrConst.IA32_MSR_MTRR_PHYSBASE1,
      MsrConst.IA32_MSR_MTRR_PHYSMASK1,
      MsrConst.IA32_MSR_MTRR_PHYSBASE2,
      MsrConst.IA32_MSR_MTRR_PHYSMASK2,
      MsrConst.IA32_MSR_MTRR_PHYSBASE3,
      MsrConst.IA32_MSR_MTRR_PHYSMASK3,
      MsrConst.IA32_MSR_MTRR_PHYSBASE4,
      MsrConst.IA32_MSR_MTRR_PHYSMASK4,
      MsrConst.IA32_MSR_MTRR_PHYSBASE5,
      MsrConst.IA32_MSR_MTRR_PHYSMASK5,
      MsrConst.IA32_MSR_MTRR_PHYSBASE6,
      MsrConst.IA32_MSR_MTRR_PHYSMASK6,
      MsrConst.IA32_MSR_MTRR_PHYSBASE7,
      MsrConst.IA32_MSR_MTRR_PHYSMASK7,
      MsrConst.IA32_MSR_MTRR_FIX64K_00000,
      MsrConst.IA32_MSR_MTRR_FIX16K_80000,
      MsrConst.IA32_MSR_MTRR_FIX16K_A0000,
      MsrConst.IA32_MSR_MTRR_FIX4K_C0000,
      MsrConst.IA32_MSR_MTRR_FIX4K_C8000,
      MsrConst.IA32_MSR_MTRR_FIX4K_D0000,
      MsrConst.IA32_MSR_MTRR_FIX4K_D8000,
      MsrConst.IA32_MSR_MTRR_FIX4K_E0000,
      MsrConst.IA32_MSR_MTRR_FIX4K_E8000,
      MsrConst.IA32_MSR_MTRR_FIX4K_F0000,
      MsrConst.IA32_MSR_MTRR_FIX4K_F8000,
      MsrConst.IA32_MSR_DEBUG_CTL,
      HvMsrConst.HV_X64_MSR_EOM>>

\* pub static MSRS_CET_SS: &[u32; 8], lines 878-887.
MSRS_CET_SS ==
    <<MsrConst.MSR_IA32_U_CET,
      MsrConst.MSR_IA32_S_CET,
      MsrConst.MSR_IA32_SSP,
      MsrConst.MSR_IA32_PL0_SSP,
      MsrConst.MSR_IA32_PL1_SSP,
      MsrConst.MSR_IA32_PL2_SSP,
      MsrConst.MSR_IA32_PL3_SSP,
      MsrConst.MSR_IA32_INTERRUPT_SSP_TABLE_ADDR>>

\* pub static MSRS_OTHER: &[u32; 4], lines 889-894.
MSRS_OTHER ==
    <<MsrConst.MSR_IA32_REGISTER_U_XSS,
      MsrConst.IA32_MSR_TSC_AUX,
      HvMsrConst.HV_X64_MSR_REFERENCE_TSC,
      HvMsrConst.HV_X64_MSR_GUEST_OS_ID>>

MsrLookupOk(reg) == [ok |-> TRUE, reg |-> reg, err |-> ""]
MsrLookupErr == [ok |-> FALSE, reg |-> "", err |-> "Not a supported hv_register_name msr"]

\* The first arm from the k-th on whose pattern equals msr on its low half only.
RECURSIVE MatchArmLow16(_, _)
MatchArmLow16(msr, k) ==
    IF k > Len(MsrArms) THEN MsrLookupErr
    ELSE IF MsrArms[k][1][2] = msr[2] THEN MsrLookupOk(MsrArms[k][2])
    ELSE MatchArmLow16(msr, k + 1)

\* The first arm from the k-th on whose pattern equals msr; `_ =>` when there is none.
RECURSIVE MatchArm(_, _)
MatchArm(msr, k) ==
    IF k > Len(MsrArms) THEN MsrLookupErr
    ELSE IF MsrArms[k][1] = msr THEN MsrLookupOk(MsrArms[k][2])
    ELSE MatchArm(msr, k + 1)

\* A plausible slip: the index truncated to 16 bits before the match.
msr_to_hv_reg_name_low16(msr) == MatchArmLow16(msr, 1)

\* pub fn msr_to_hv_reg_name(msr: u32), lines 284-372.
msr_to_hv_reg_name(msr) == MatchArm(msr, 1)

\* A plausible slip: the CET block pushed last.
get_partition_supported_msrs_cet_last(features) ==
    LET m1 == MSRS_COMMON
        m3 == IF features.proc_features.rdtscp_support = 1
              THEN Append(m1, MsrConst.IA32_MSR_TSC_AUX) ELSE m1
        m4 == IF features.xsave_features.xsave_supervisor_support = 1
              THEN Append(m3, MsrConst.MSR_IA32_REGISTER_U_XSS) ELSE m3
        m5 == IF features.synthetic_features.access_synic_regs = 1
              THEN m4 \o MSRS_SYNIC ELSE m4
        m6 == IF features.synthetic_features.access_partition_reference_tsc = 1
              THEN Append(m5, HvMsrConst.HV_X64_MSR_REFERENCE_TSC) ELSE m5
        m7 == IF features.synthetic_features.access_hypercall_regs = 1
              THEN Append(m6, HvMsrConst.HV_X64_MSR_GUEST_OS_ID) ELSE m6
        m8 == IF features.proc_features.cet_ss_support = 1
              THEN m7 \o MSRS_CET_SS ELSE m7
    IN m8

\* A plausible slip: the XSS push before the TSC_AUX push (the order of MSRS_OTHER).
get_partition_supported_msrs_xss_first(features) ==
    LET m1 == MSRS_COMMON
        m2 == IF features.proc_features.cet_ss_support = 1
              THEN m1 \o MSRS_CET_SS ELSE m1
        m3 == IF features.xsave_features.xsave_supervisor_support = 1
              THEN Append(m2, MsrConst.MSR_IA32_REGISTER_U_XSS) ELSE m2
        m4 == IF features.proc_features.rdtscp_support = 1
              THEN Append(m3, MsrConst.IA32_MSR_TSC_AUX) ELSE m3
        m5 == IF features.synthetic_features.access_synic_regs = 1
              THEN m4 \o MSRS_SYNIC ELSE m4
        m6 == IF features.synthetic_features.access_partition_reference_tsc = 1
              THEN Append(m5, HvMsrConst.HV_X64_MSR_REFERENCE_TSC) ELSE m5
        m7 == IF features.synthetic_features.access_hypercall_regs = 1
              THEN Append(m6, HvMsrConst.HV_X64_MSR_GUEST_OS_ID) ELSE m6
    IN m7

\* pub fn get_partition_supported_msrs(features: &VpFeatures), lines 904-952.  Each
\* feature getter returns one bit of its bitfield as a u64; sse3_support stands for
\* the bits the function never reads.
get_partition_supported_msrs(features) ==
    LET m0 == << >>
        m1 == m0 \o MSRS_COMMON
        m2 == IF features.proc_features.cet_ss_support = 1
              THEN m1 \o MSRS_CET_SS ELSE m1
        m3 == IF features.proc_features.rdtscp_support = 1
              THEN Append(m2, MsrConst.IA32_MSR_TSC_AUX) ELSE m2
        m4 == IF features.xsave_features.xsave_supervisor_support = 1
              THEN Append(m3, MsrConst.MSR_IA32_REGISTER_U_XSS) ELSE m3
        m5 == IF features.synthetic_features.access_synic_regs = 1
              THEN m4 \o MSRS_SYNIC ELSE m4
        m6 == IF features.synthetic_features.access_partition_reference_tsc = 1
              THEN Append(m5, HvMsrConst.HV_X64_MSR_REFERENCE_TSC) ELSE m5
        m7 == IF features.synthetic_features.access_hypercall_regs = 1
              THEN Append(m6, HvMsrConst.HV_X64_MSR_GUEST_OS_ID) ELSE m6
    IN m7

\* ------------------------------------------------------------------------
\* The heap as the codec's caller sees it: how many regions Buffer::new handed
\* out and how many calls of std::alloc::dealloc were made.

\* A slip: the moved-in Buffer is forgotten (mem::forget) and its region leaks.
MovedBuffer_forget(heap) == heap

\* The Buffer a try_from took by value goes out of scope at each of its returns
\* (lines 548 and 553, 574 and 626); impl Drop for Buffer (508-512) then calls
\* dealloc() once.
MovedBuffer_drop(heap) == [heap EXCEPT !.deallocs = @ + 1]

\* ------------------------------------------------------------------------
\* Idle values of each component
\* ------------------------------------------------------------------------
\* The layout of a Buffer that does not exist.
NoLayout == [size |-> 0, align |-> 0]

IdleBuf ==
    /\ bufState = "none"
    /\ bufLayout = NoLayout
    /\ bufPtr = 0
    /\ bufMem = ZeroMem(0)
    /\ bufReq = NoLayout
    /\ allocLog = << >>
    /\ deallocLog = << >>
    /\ bufSizeSeen = 0
    /\ bufOps = 0

IdleSeg ==
    /\ segPc = "idle"
    /\ segX = SegmentRegister_default
    /\ hvY = hv_x64_segment_register_default
    /\ segZ = SegmentRegister_default
    /\ hvZ = hv_x64_segment_register_default

\* No raw Buffer.
NoRaw == [size |-> 0, align |-> 0, hv |-> hv_lapic_zero, bytes |-> << >>]

IdleCodec ==
    /\ codecPc = "idle"
    /\ rawIn = NoRaw
    /\ rawBuf = NoRaw
    /\ lapic = << >>
    /\ xsave = << >>
    /\ codecErr = "none"
    /\ codecHeap = [allocs |-> 0, deallocs |-> 0]
    /\ typedLog = << >>
    /\ encPtr = 0

IdleDir ==
    /\ dirs = << >>
    /\ extBuf = [size |-> 0, bytes |-> << >>]
    /\ calls = << >>
    /\ dirPanicked = FALSE

IdleMsr ==
    /\ msrCalls = << >>
    /\ msrResolved = << >>
    /\ msrLookups = << >>

\* ------------------------------------------------------------------------
\* Buffer
\* ------------------------------------------------------------------------
BufSizes == 0..MaxBufSize
BufAligns == {0, 1, 2, 3, 4, 8}

BufOpsLeft == bufOps < MaxBufOps

\* Buffer::new(size, align), lines 476-487.
Buffer_new(size, align) ==
    /\ bufState = "none"
    /\ UNCHANGED <<segVars, codecVars, dirVars, msrVars>>
    /\ bufOps' = bufOps + 1
    /\ bufReq' = [size |-> size, align |-> align]
    /\ LET l == LayoutFromSizeAlign(size, align) IN
       IF ~l.ok
       THEN \* .unwrap() on Err(LayoutError) panics
            /\ bufState' = "panicked"
            /\ UNCHANGED <<bufLayout, bufPtr, bufMem, allocLog>>
       ELSE \E p \in Alloc([size |-> l.size, align |-> l.align]) :
            IF p = 0
            THEN /\ bufState' = "enomem"
                 /\ UNCHANGED <<bufLayout, bufPtr, bufMem, allocLog>>
            ELSE /\ bufState' = "owned"
                 /\ bufLayout' = [size |-> l.size, align |-> l.align]
                 /\ bufPtr' = p
                 /\ bufMem' \in UninitMem(l.size)
                 /\ allocLog' = Append(allocLog,
                                       [ptr |-> p, size |-> l.size, align |-> l.align])
    /\ UNCHANGED <<deallocLog, bufSizeSeen>>

\* Whether the block at bufPtr is currently allocated: allocated and not yet freed.
HeapLive == Len(allocLog) = 1 /\ Len(deallocLog) = 0

\* Buffer::dealloc(&mut self), lines 489-494: std::alloc::dealloc(self.buf, self.layout).
\* On a block that is already freed this is a double free, undefined behaviour: the
\* allocator may abort the process or carry on.
Buffer_dealloc ==
    /\ bufState = "owned"
    /\ UNCHANGED <<segVars, codecVars, dirVars, msrVars>>
    /\ BufOpsLeft
    /\ bufOps' = bufOps + 1
    /\ deallocLog' = Append(deallocLog,
                            [ptr |-> bufPtr, size |-> bufLayout.size, align |-> bufLayout.align])
    /\ IF HeapLive
       THEN bufState' = "owned"
       ELSE bufState' \in {"owned", "aborted"}
    /\ UNCHANGED <<bufLayout, bufPtr, bufMem, bufReq, allocLog, bufSizeSeen>>

\* Buffer::size(&self), lines 496-498.
Buffer_size ==
    /\ bufState = "owned"
    /\ UNCHANGED <<segVars, codecVars, dirVars, msrVars>>
    /\ BufOpsLeft
    /\ bufOps' = bufOps + 1
    /\ bufSizeSeen' = bufLayout.size
    /\ UNCHANGED <<bufState, bufLayout, bufPtr, bufMem, bufReq, allocLog, deallocLog>>

\* Buffer::zero_out_buf(&mut self), lines 500-505.  On a freed block the write is a
\* use after free, undefined behaviour: it may fault or go through.
Buffer_zero_out_buf ==
    /\ bufState = "owned"
    /\ UNCHANGED <<segVars, codecVars, dirVars, msrVars>>
    /\ BufOpsLeft
    /\ bufOps' = bufOps + 1
    /\ bufMem' = ZeroMem(bufLayout.size)
    /\ IF HeapLive
       THEN bufState' = "owned"
       ELSE bufState' \in {"owned", "aborted"}
    /\ UNCHANGED <<bufLayout, bufPtr, bufReq, allocLog, deallocLog, bufSizeSeen>>

\* impl Drop for Buffer, lines 508-512: drop calls self.dealloc().  The owner drops
\* the Buffer once, at any point of its life.
Buffer_drop ==
    /\ bufState = "owned"
    /\ UNCHANGED <<segVars, codecVars, dirVars, msrVars>>
    /\ deallocLog' = Append(deallocLog,
                            [ptr |-> bufPtr, size |-> bufLayout.size, align |-> bufLayout.align])
    /\ IF HeapLive
       THEN bufState' = "dropped"
       ELSE bufState' \in {"dropped", "aborted"}
    /\ UNCHANGED <<bufLayout, bufPtr, bufMem, bufReq, allocLog, bufSizeSeen, bufOps>>

InitBuf == IdleBuf /\ IdleSeg /\ IdleCodec /\ IdleDir /\ IdleMsr

NewAny == \E size \in BufSizes, align \in BufAligns : Buffer_new(size, align)

NextBuf ==
    \/ NewAny
    \/ Buffer_dealloc
    \/ Buffer_size
    \/ Buffer_zero_out_buf
    \/ Buffer_drop

SpecBuf == InitBuf /\ [][NextBuf]_vars

InitSeg ==
    /\ IdleBuf
    /\ IdleCodec
    /\ IdleDir
    /\ IdleMsr
    /\ \/ /\ segPc = "reg"
          /\ segX \in SegInputs
          /\ hvY = hv_x64_segment_register_default
       \/ /\ segPc = "hv"
          /\ segX = SegmentRegister_default
          /\ hvY \in HvSegInputs
    /\ segZ = SegmentRegister_default
    /\ hvZ = hv_x64_segment_register_default

\* let y: hv_x64_segment_register = x.into();
Pack ==
    /\ segPc = "reg"
    /\ hvY' = hv_x64_segment_register_from(segX)
    /\ segPc' = "packed"
    /\ UNCHANGED <<segX, segZ, hvZ, bufVars, codecVars, dirVars, msrVars>>

\* let z: SegmentRegister = y.into();
Unpack ==
    /\ segPc = "packed"
    /\ segZ' = SegmentRegister_from(hvY)
    /\ segPc' = "unpacked"
    /\ UNCHANGED <<segX, hvY, hvZ, bufVars, codecVars, dirVars, msrVars>>

\* let x: SegmentRegister = y.into();   (y a packed register to begin with)
UnpackFirst ==
    /\ segPc = "hv"
    /\ segX' = SegmentRegister_from(hvY)
    /\ segPc' = "hv_unpacked"
    /\ UNCHANGED <<hvY, segZ, hvZ, bufVars, codecVars, dirVars, msrVars>>

\* let y2: hv_x64_segment_register = x.into();
PackAgain ==
    /\ segPc = "hv_unpacked"
    /\ hvZ' = hv_x64_segment_register_from(segX)
    /\ segPc' = "hv_repacked"
    /\ UNCHANGED <<segX, hvY, segZ, bufVars, codecVars, dirVars, msrVars>>

NextSeg ==
    \/ Pack
    \/ Unpack
    \/ UnpackFirst
    \/ PackAgain

SpecSeg == InitSeg /\ [][NextSeg]_vars

\* The attribute widths of SegmentRegister (comments of lines 48-55).
SegValid(x) ==
    /\ x.type_ < 16 /\ x.present < 2 /\ x.dpl < 4 /\ x.db < 2
    /\ x.s < 2 /\ x.l < 2 /\ x.g < 2 /\ x.avl < 2


\* ------------------------------------------------------------------------
\* LAPIC and XSAVE codecs: the conversions applied to drawn inputs
\* ------------------------------------------------------------------------
\* The value of the k-th scalar field: different for every field.
ScalarVal(seed, k) == <<(seed + 7 * k) % 256, k, 255 - k, (3 * seed + k) % 256>>

MkHv(seed, isr) ==
    [apic_id |-> ScalarVal(seed, 1), apic_version |-> ScalarVal(seed, 2),
     apic_remote_read |-> ScalarVal(seed, 3), apic_ldr |-> ScalarVal(seed, 4),
     apic_dfr |-> ScalarVal(seed, 5), apic_spurious |-> ScalarVal(seed, 6),
     apic_esr |-> ScalarVal(seed, 7), apic_icr_low |-> ScalarVal(seed, 8),
     apic_icr_high |-> ScalarVal(seed, 9), apic_lvt_timer |-> ScalarVal(seed, 10),
     apic_lvt_thermal |-> ScalarVal(seed, 11), apic_lvt_perfmon |-> ScalarVal(seed, 12),
     apic_lvt_lint0 |-> ScalarVal(seed, 13), apic_lvt_lint1 |-> ScalarVal(seed, 14),
     apic_lvt_error |-> ScalarVal(seed, 15), apic_initial_count |-> ScalarVal(seed, 16),
     apic_counter_value |-> ScalarVal(seed, 17),
     apic_divide_configuration |-> ScalarVal(seed, 18),
     apic_error_status |-> ScalarVal(seed, 19), apic_lvt_cmci |-> ScalarVal(seed, 20),
     apic_isr |-> isr,
     apic_tmr |-> [i \in 0..7 |-> <<i + 1, seed, 0, 128 + i>>],
     apic_irr |-> [i \in 0..7 |-> <<seed, i + 17, 255, i>>]]

\* ISR words: 0, 0x4, 0x00011000, 0xFFFFFFFF.
IsrWords == {U32Zero, <<4, 0, 0, 0>>, <<0, 16, 1, 0>>, <<255, 255, 255, 255>>}

IsrInputs ==
    {f \in [0..7 -> IsrWords] :
        Cardinality({i \in 0..7 : f[i] # U32Zero}) <= MaxIsrNonZero}

LapicBufSizes == {0, 175, 176, 177, 4096}

\* Every ISR array with the second seed, the all-zero one with the first as well.
HvInputs ==
    {MkHv(200, isr) : isr \in IsrInputs} \cup {MkHv(1, [i \in 0..7 |-> U32Zero])}

LapicRawInputs ==
    {[size |-> sz, align |-> HV_PAGE_SIZE, hv |-> hv, bytes |-> << >>] :
        sz \in LapicBufSizes, hv \in HvInputs}

XsaveBufSizes == {0, 16, 4095, 4096, 4097, 8192}
XsaveSeeds == {0, 100}

XsaveRawInputs ==
    {[size |-> sz, align |-> HV_PAGE_SIZE, hv |-> hv_lapic_zero,
      bytes |-> [k \in 0..(sz - 1) |-> ((k * 7 + seed) % 251) + 1]] :
        sz \in XsaveBufSizes, seed \in XsaveSeeds}

\* A LapicState a VMM may hold: no byte of it zero, the ISR words as given.
LapicNoise(seed) == [k \in 0..(LAPIC_REGS_SIZE - 1) |-> ((k * 5 + seed) % 255) + 1]

RECURSIVE WithIsr(_, _, _)
WithIsr(regs, isr, i) ==
    IF i > 7 THEN regs
    ELSE WithIsr(WriteU32(regs, LOCAL_APIC_OFFSET_ISR + i * 16, isr[i]), isr, i + 1)

LapicRegIsr ==
    {[i \in 0..7 |-> U32Zero],
     [i \in 0..7 |-> IF i = 7 THEN <<4, 0, 0, 0>> ELSE U32Zero],
     [i \in 0..7 |-> IF i = 0 THEN <<255, 255, 255, 255>>
                     ELSE IF i = 3 THEN <<0, 16, 1, 0>> ELSE U32Zero]}

LapicRegSeeds == {3, 77}

LapicRegInputs ==
    {LapicNoise(seed) : seed \in LapicRegSeeds}
    \cup {WithIsr(LapicNoise(seed), isr, 0) : seed \in LapicRegSeeds, isr \in LapicRegIsr}

\* The XSave values a VMM may hold.
XsaveRegInputs ==
    {XSave_default}
    \cup {[k \in 0..(XSAVE_BUFFER_SIZE - 1) |-> ((k * 3 + seed) % 256)] : seed \in XsaveSeeds}

\* A run starts from a raw Buffer the hypervisor filled, or from a typed state.
InitCodec ==
    /\ IdleBuf
    /\ IdleSeg
    /\ IdleDir
    /\ IdleMsr
    /\ \/ /\ codecPc = "lapic_raw" /\ rawIn \in LapicRawInputs
          /\ lapic = << >> /\ xsave = << >>
          /\ typedLog = << >>
          /\ codecHeap = [allocs |-> 1, deallocs |-> 0]
       \/ /\ codecPc = "xsave_raw" /\ rawIn \in XsaveRawInputs
          /\ lapic = << >> /\ xsave = << >>
          /\ typedLog = << >>
          /\ codecHeap = [allocs |-> 1, deallocs |-> 0]
       \/ /\ codecPc = "lapic_reg" /\ rawIn = NoRaw
          /\ lapic \in LapicRegInputs /\ xsave = << >>
          /\ typedLog = <<lapic>>
          /\ codecHeap = [allocs |-> 0, deallocs |-> 0]
       \/ /\ codecPc = "xsave_reg" /\ rawIn = NoRaw
          /\ lapic = << >> /\ xsave \in XsaveRegInputs
          /\ typedLog = <<xsave>>
          /\ codecHeap = [allocs |-> 0, deallocs |-> 0]
    /\ rawBuf = rawIn
    /\ codecErr = "none"
    /\ encPtr = 0

\* Where a decode leads: <<pc on Ok, pc on Err>>.
LapicDecodePc ==
    [lapic_raw |-> <<"lapic_state", "lapic_err">>,
     lapic_enc |-> <<"lapic_back", "lapic_back_err">>,
     lapic_enc2 |-> <<"lapic_back2", "lapic_back2_err">>]

\* Where an encode leads: <<pc on Ok, pc on Err>>.
LapicEncodePc ==
    [lapic_state |-> <<"lapic_raw2", "lapic_enomem">>,
     lapic_reg |-> <<"lapic_enc", "lapic_reg_enomem">>,
     lapic_back |-> <<"lapic_enc2", "lapic_back_enomem">>]

XSaveDecodePc ==
    [xsave_raw |-> <<"xsave_state", "xsave_err">>,
     xsave_enc |-> <<"xsave_back", "xsave_back_err">>]

XSaveEncodePc ==
    [xsave_state |-> <<"xsave_raw2", "xsave_enomem">>,
     xsave_reg |-> <<"xsave_enc", "xsave_reg_enomem">>]

\* LapicState::try_from(buf): buf is moved in and dropped when the call returns.
LapicDecode ==
    /\ codecPc \in DOMAIN LapicDecodePc
    /\ LET r == LapicState_try_from(rawBuf) IN
          /\ lapic' = IF r.ok THEN r.regs ELSE lapic
          /\ typedLog' = IF r.ok THEN Append(typedLog, r.regs) ELSE typedLog
          /\ codecErr' = r.err
          /\ codecPc' = IF r.ok THEN LapicDecodePc[codecPc][1] ELSE LapicDecodePc[codecPc][2]
    /\ rawBuf' = NoRaw
    /\ codecHeap' = MovedBuffer_drop(codecHeap)
    /\ UNCHANGED <<rawIn, xsave, encPtr, bufVars, segVars, dirVars, msrVars>>

\* Buffer::try_from(&lapic)
LapicEncode ==
    /\ codecPc \in DOMAIN LapicEncodePc
    /\ \E p \in Alloc([size |-> LapicBufferSize, align |-> HV_PAGE_SIZE]) :
          LET r == Buffer_try_from_LapicState(lapic, p) IN
          /\ rawBuf' = IF r.ok
                       THEN [size |-> r.size, align |-> r.align, hv |-> r.hv,
                             bytes |-> r.bytes]
                       ELSE rawBuf
          /\ encPtr' = IF r.ok THEN p ELSE encPtr
          /\ codecErr' = r.err
          /\ codecPc' = IF r.ok THEN LapicEncodePc[codecPc][1] ELSE LapicEncodePc[codecPc][2]
          /\ codecHeap' = IF r.ok THEN [codecHeap EXCEPT !.allocs = @ + 1] ELSE codecHeap
    /\ UNCHANGED <<rawIn, lapic, xsave, typedLog, bufVars, segVars, dirVars, msrVars>>

\* XSave::try_from(buf): buf is moved in and dropped when the call returns.
XSaveDecode ==
    /\ codecPc \in DOMAIN XSaveDecodePc
    /\ LET r == XSave_try_from(rawBuf) IN
          /\ xsave' = IF r.ok THEN r.buffer ELSE xsave
          /\ typedLog' = IF r.ok THEN Append(typedLog, r.buffer) ELSE typedLog
          /\ codecErr' = r.err
          /\ codecPc' = IF r.ok THEN XSaveDecodePc[codecPc][1] ELSE XSaveDecodePc[codecPc][2]
    /\ rawBuf' = NoRaw
    /\ codecHeap' = MovedBuffer_drop(codecHeap)
    /\ UNCHANGED <<rawIn, lapic, encPtr, bufVars, segVars, dirVars, msrVars>>

\* Buffer::try_from(&xsave)
XSaveEncode ==
    /\ codecPc \in DOMAIN XSaveEncodePc
    /\ \E p \in Alloc([size |-> XSaveBufferSize, align |-> HV_PAGE_SIZE]),
          u \in UninitBytes :
          LET r == Buffer_try_from_XSave(xsave, p, u) IN
          /\ rawBuf' = IF r.ok
                       THEN [size |-> r.size, align |-> r.align, hv |-> r.hv,
                             bytes |-> r.bytes]
                       ELSE rawBuf
          /\ encPtr' = IF r.ok THEN p ELSE encPtr
          /\ codecErr' = r.err
          /\ codecPc' = IF r.ok THEN XSaveEncodePc[codecPc][1] ELSE XSaveEncodePc[codecPc][2]
          /\ codecHeap' = IF r.ok THEN [codecHeap EXCEPT !.allocs = @ + 1] ELSE codecHeap
    /\ UNCHANGED <<rawIn, lapic, xsave, typedLog, bufVars, segVars, dirVars, msrVars>>

NextCodec ==
    \/ LapicDecode
    \/ LapicEncode
    \/ XSaveDecode
    \/ XSaveEncode

SpecCodec == InitCodec /\ [][NextCodec]_vars

\* ------------------------------------------------------------------------
\* VP-state component directory: two directories and one external Buffer
\* ------------------------------------------------------------------------
\* Sizes of the external Buffer: below the smallest component, each component size.
DirBufSizes == {199, 200, 1024, 4096}

\* Directory 1 holds bytes that differ from component to component; directory 2 is
\* fresh (AllVpStateComponents::default()).  The external Buffer holds other bytes.
InitDir ==
    /\ IdleBuf
    /\ IdleSeg
    /\ IdleCodec
    /\ IdleMsr
    /\ dirs = <<[k \in 1..VP_STATE_COMPONENTS_BUFFER_SIZE |-> (k % 251) + 1],
                AllVpStateComponents_default>>
    /\ \E sz \in DirBufSizes :
          extBuf = [size |-> sz, bytes |-> [k \in 1..sz |-> 255 - (k % 7)]]
    /\ calls = << >>
    /\ dirPanicked = FALSE

\* dirs[d].copy_to_or_from_buffer(index, &mut extBuf, to_buffer).  A panic ends the
\* run.
Copy(d, index, to_buffer) ==
    /\ ~dirPanicked
    /\ Len(calls) < MaxCopies
    /\ LET r == copy_to_or_from_buffer(dirs[d], index, extBuf, to_buffer) IN
          /\ dirs' = [dirs EXCEPT ![d] = r.self]
          /\ extBuf' = r.buffer
          /\ dirPanicked' = r.panicked
          /\ calls' = Append(calls, [dir |-> d, index |-> index, to_buffer |-> to_buffer,
                                     panicked |-> r.panicked, start |-> r.start,
                                     end |-> r.end, len |-> r.len])
    /\ UNCHANGED <<bufVars, segVars, codecVars, msrVars>>

CopyToBuffer == \E d \in 1..2, index \in 0..MSHV_VP_STATE_COUNT : Copy(d, index, TRUE)
CopyFromBuffer == \E d \in 1..2, index \in 0..MSHV_VP_STATE_COUNT : Copy(d, index, FALSE)

NextDir ==
    \/ CopyToBuffer
    \/ CopyFromBuffer

SpecDir == InitDir /\ [][NextDir]_vars

\* ------------------------------------------------------------------------
\* MSR set builder: calls of get_partition_supported_msrs, and the resolver run
\* over the list a call returned
\* ------------------------------------------------------------------------
Bit == {0, 1}

\* VpFeatures: the six bits the builder reads and one it does not.
AllVpFeatures ==
    [proc_features : [cet_ss_support : Bit, rdtscp_support : Bit, sse3_support : Bit],
     xsave_features : [xsave_supervisor_support : Bit],
     synthetic_features : [access_synic_regs : Bit,
                           access_partition_reference_tsc : Bit,
                           access_hypercall_regs : Bit]]

\* The number of bits two bundles differ in.
FeatureDistance(f, g) ==
    (IF f.proc_features.cet_ss_support = g.proc_features.cet_ss_support THEN 0 ELSE 1)
    + (IF f.proc_features.rdtscp_support = g.proc_features.rdtscp_support THEN 0 ELSE 1)
    + (IF f.proc_features.sse3_support = g.proc_features.sse3_support THEN 0 ELSE 1)
    + (IF f.xsave_features = g.xsave_features THEN 0 ELSE 1)
    + (IF f.synthetic_features.access_synic_regs
            = g.synthetic_features.access_synic_regs THEN 0 ELSE 1)
    + (IF f.synthetic_features.access_partition_reference_tsc
            = g.synthetic_features.access_partition_reference_tsc THEN 0 ELSE 1)
    + (IF f.synthetic_features.access_hypercall_regs
            = g.synthetic_features.access_hypercall_regs THEN 0 ELSE 1)

\* The first call takes any bundle; a later one the bundle of the call before it, or
\* that bundle with one bit changed.
NextFeatures ==
    IF msrCalls = << >> THEN AllVpFeatures
    ELSE {f \in AllVpFeatures : FeatureDistance(f, msrCalls[Len(msrCalls)].features) <= 1}

InitMsr ==
    /\ IdleBuf
    /\ IdleSeg
    /\ IdleCodec
    /\ IdleDir
    /\ IdleMsr

\* let msrs = get_partition_supported_msrs(&features);
GetMsrs ==
    /\ Len(msrCalls) < MaxMsrCalls
    /\ \E features \in NextFeatures :
          msrCalls' = Append(msrCalls, [features |-> features,
                                        msrs |-> get_partition_supported_msrs(features)])
    /\ msrResolved' = << >>
    /\ UNCHANGED <<msrLookups, bufVars, segVars, codecVars, dirVars>>

\* msrs.iter().map(|m| msr_to_hv_reg_name(*m)) over the list of the last call.
ResolveListed ==
    /\ msrCalls /= << >>
    /\ msrResolved = << >>
    /\ msrResolved' = [k \in 1..Len(msrCalls[Len(msrCalls)].msrs) |->
                          msr_to_hv_reg_name(msrCalls[Len(msrCalls)].msrs[k])]
    /\ UNCHANGED <<msrCalls, msrLookups, bufVars, segVars, codecVars, dirVars>>

NextMsr ==
    \/ GetMsrs
    \/ ResolveListed

SpecMsr == InitMsr /\ [][NextMsr]_vars

\* ------------------------------------------------------------------------
\* MSR resolver: calls of msr_to_hv_reg_name
\* ------------------------------------------------------------------------
\* Every index a constant names.
MsrCatalogue ==
    {MsrConst[n] : n \in DOMAIN MsrConst} \cup {HvMsrConst[n] : n \in DOMAIN HvMsrConst}

\* The indices looked up: the named ones, their neighbours, the same low half under
\* another high half, and the ends of the u32 range.
MsrProbes ==
    MsrCatalogue
    \cup {<<m[1], m[2] + 1>> : m \in {c \in MsrCatalogue : c[2] < 65535}}
    \cup {<<m[1], m[2] - 1>> : m \in {c \in MsrCatalogue : c[2] > 0}}
    \cup {<<h, m[2]>> : h \in {0, 8, 16384, 49152}, m \in MsrCatalogue}
    \cup {<<0, 0>>, <<65535, 65535>>}

InitResolve == InitMsr

Lookup ==
    /\ msrLookups = << >>
    /\ \E msr \in MsrProbes :
          msrLookups' = <<[msr |-> msr, result |-> msr_to_hv_reg_name(msr)]>>
    /\ UNCHANGED <<msrCalls, msrResolved, bufVars, segVars, codecVars, dirVars>>

\* The index of the first lookup, looked up again.
LookupAgain ==
    /\ msrLookups /= << >>
    /\ Len(msrLookups) < MaxLookups
    /\ msrLookups' = Append(msrLookups,
                            [msr |-> msrLookups[1].msr,
                             result |-> msr_to_hv_reg_name(msrLookups[1].msr)])
    /\ UNCHANGED <<msrCalls, msrResolved, bufVars, segVars, codecVars, dirVars>>

NextResolve ==
    \/ Lookup
    \/ LookupAgain

SpecResolve == InitResolve /\ [][NextResolve]_vars

\* ========================================================================
\* Claims
\* ========================================================================

\* C1: over any sequence of new, size, zero_out_buf and dealloc calls ending with
\* the owner dropping the Buffer, the region is deallocated exactly once and with
\* the layout it was allocated with.  (Refuted: dealloc is a safe public method
\* and Drop calls it again, so dealloc() followed by the drop frees twice.)
C1_DeallocExactlyOnce ==
    /\ Len(deallocLog) <= 1
    /\ \A k \in 1..Len(deallocLog) : deallocLog[k] = allocLog[1]
    /\ bufState = "dropped" => Len(deallocLog) = 1

\* C2 as stated: for every valid SegmentRegister x, unpack(pack(x)) = x in every
\* field, unusable and padding included.
C2_RoundTripAllFields ==
    (segPc = "unpacked" /\ SegValid(segX)) => segZ = segX

\* C2 as amended: for every valid SegmentRegister x, unpack(pack(x)) reproduces
\* base, limit, selector, type, present, dpl, db, s, l, g and avl exactly and has
\* unusable = 0 and padding = 0; so it equals x exactly when x.unusable = 0 and
\* x.padding = 0.
C2_RoundTripPackedFields ==
    (segPc = "unpacked" /\ SegValid(segX)) =>
        /\ segZ = [segX EXCEPT !.unusable = 0, !.padding = 0]
        /\ (segZ = segX) <=> (segX.unusable = 0 /\ segX.padding = 0)

C2_Witness ==
    /\ segPc = "unpacked"
    /\ SegValid(segX)
    /\ segX.base = 1048576 /\ segX.type_ = 11 /\ segX.dpl = 3 /\ segX.present = 1
    /\ segX.l = 1 /\ segX.db = 0 /\ segX.unusable = 1
    /\ segZ.type_ = 11 /\ segZ.l = 1 /\ segZ.unusable = 0

\* C16: for every packed register y, pack(unpack(y)) has the base, limit and
\* selector of y and the same value in each of the eight named attribute bitfields;
\* the attribute bits no field names (8..11) are zero in it.
C16_RepackKeepsNamedFields ==
    segPc = "hv_repacked" =>
        /\ hvZ.base = hvY.base
        /\ hvZ.limit = hvY.limit
        /\ hvZ.selector = hvY.selector
        /\ segment_type(hvZ.attributes) = segment_type(hvY.attributes)
        /\ present(hvZ.attributes) = present(hvY.attributes)
        /\ descriptor_privilege_level(hvZ.attributes)
               = descriptor_privilege_level(hvY.attributes)
        /\ _default(hvZ.attributes) = _default(hvY.attributes)
        /\ non_system_segment(hvZ.attributes) = non_system_segment(hvY.attributes)
        /\ _long(hvZ.attributes) = _long(hvY.attributes)
        /\ granularity(hvZ.attributes) = granularity(hvY.attributes)
        /\ available(hvZ.attributes) = available(hvY.attributes)
        /\ (hvZ.attributes \div 256) % 16 = 0
        /\ hvZ.attributes = hvY.attributes - 256 * ((hvY.attributes \div 256) % 16)

\* A register with every attribute bit set came back with bits 8..11 cleared.
C16_Witness ==
    /\ segPc = "hv_repacked"
    /\ hvY.attributes = 65535
    /\ hvY.base = 1048576
    /\ hvZ.attributes = 61695
    /\ hvZ.base = 1048576

\* C6: Buffer::new(size, align) never terminates the process; it returns a Buffer
\* whose size() is the requested size and whose region is aligned to align, or
\* ENOMEM.  (Refuted: Layout::from_size_align(..).unwrap() panics on an align that
\* is zero or not a power of two.)
C6_NewNeverTerminates ==
    /\ bufState # "panicked"
    /\ bufState = "owned" =>
          (bufLayout.size = bufReq.size /\ bufPtr % bufLayout.align = 0)

LapicDecoded == codecPc \in {"lapic_state", "lapic_err", "lapic_raw2", "lapic_enomem"}
LapicDecodedOk == codecPc \in {"lapic_state", "lapic_raw2", "lapic_enomem"}
XSaveDecoded == codecPc \in {"xsave_state", "xsave_err", "xsave_raw2", "xsave_enomem"}

\* The scalar fields of the hypervisor record the register file carries.
ManagedScalars ==
    {"apic_id", "apic_version", "apic_remote_read", "apic_ldr", "apic_dfr",
     "apic_spurious", "apic_esr", "apic_icr_low", "apic_icr_high", "apic_lvt_timer",
     "apic_lvt_thermal", "apic_lvt_perfmon", "apic_lvt_lint0", "apic_lvt_lint1",
     "apic_lvt_error", "apic_initial_count", "apic_counter_value",
     "apic_divide_configuration"}

\* C3: a hypervisor LAPIC record decoded into a LapicState and encoded again equals
\* the original in every managed scalar field and in all 8 words of apic_isr,
\* apic_tmr and apic_irr; apic_error_status and apic_lvt_cmci are zero.
C3_DecodeEncodeKeepsRecord ==
    codecPc = "lapic_raw2" =>
        /\ \A f \in ManagedScalars : rawBuf.hv[f] = rawIn.hv[f]
        /\ \A i \in 0..7 :
              /\ rawBuf.hv.apic_isr[i] = rawIn.hv.apic_isr[i]
              /\ rawBuf.hv.apic_tmr[i] = rawIn.hv.apic_tmr[i]
              /\ rawBuf.hv.apic_irr[i] = rawIn.hv.apic_irr[i]
        /\ rawBuf.hv.apic_error_status = U32Zero
        /\ rawBuf.hv.apic_lvt_cmci = U32Zero

C3_Witness ==
    /\ codecPc = "lapic_raw2"
    /\ rawIn.size = HV_LAPIC_STATE_SIZE
    /\ rawIn.hv.apic_error_status # U32Zero
    /\ rawIn.hv.apic_lvt_cmci # U32Zero
    /\ rawIn.hv.apic_isr[7] = <<4, 0, 0, 0>>
    /\ rawBuf.hv.apic_isr[7] = <<4, 0, 0, 0>>
    /\ rawBuf.hv.apic_icr_low = ScalarVal(200, 8)
    /\ rawBuf.hv.apic_icr_high = ScalarVal(200, 9)
    /\ rawBuf.hv.apic_error_status = U32Zero

\* Bit k of a u32.
BitSet(v, k) == (v[(k \div 8) + 1] \div Pow2(k % 8)) % 2 = 1

\* The index of the most significant set bit of a non-zero u32.
MsbIndex(v) == CHOOSE k \in 0..31 : BitSet(v, k) /\ \A j \in (k + 1)..31 : ~BitSet(v, j)

\* 32*i + (most significant set bit of ISR[i]) for the largest i with ISR[i] # 0,
\* and 0 when every word is zero.
ExpectedPpr(isr) ==
    IF \A i \in 0..7 : isr[i] = U32Zero
    THEN 0
    ELSE LET i == CHOOSE i \in 0..7 :
                      isr[i] # U32Zero /\ \A j \in (i + 1)..7 : isr[j] = U32Zero
         IN 32 * i + MsbIndex(isr[i])

\* C4: the PPR the decode writes at offset 0xA0 is ExpectedPpr of the record's ISR
\* words; it lies in 0..255, so the u32 arithmetic does not overflow.
C4_PprFromIsr ==
    LapicDecodedOk =>
        LET isr == rawIn.hv.apic_isr IN
        /\ ReadU32(lapic, LOCAL_APIC_OFFSET_PPR) = ToU32(ExpectedPpr(isr))
        /\ ExpectedPpr(isr) \in 0..255
        /\ isrv(isr) \in 0..255

C4_Witness ==
    /\ codecPc = "lapic_state"
    /\ rawIn.hv.apic_isr = [i \in 0..7 |-> IF i = 7 THEN <<4, 0, 0, 0>> ELSE U32Zero]
    /\ ReadU32(lapic, LOCAL_APIC_OFFSET_PPR) = <<226, 0, 0, 0>>

\* C5 as stated: a LAPIC or XSAVE decode given a buffer smaller than the structure
\* it decodes is an error and produces no destination state.
C5_SmallBufferRejected ==
    /\ (LapicDecoded /\ rawIn.size < HV_LAPIC_STATE_SIZE) =>
          (codecPc = "lapic_err" /\ codecErr = "EINVAL" /\ lapic = << >>)
    /\ (XSaveDecoded /\ rawIn.size < XSAVE_BUFFER_SIZE) =>
          (codecPc = "xsave_err" /\ codecErr = "EINVAL" /\ xsave = << >>)

\* C5 as amended: the LAPIC decode rejects (EINVAL, no LapicState) exactly the
\* buffers smaller than the hypervisor record; the XSAVE decode rejects (EINVAL, no
\* XSave) exactly the buffers larger than 4096 bytes, and of a smaller buffer copies
\* its size() bytes to the start of the XSave, the rest of which is zero.
C5_SizeMismatch ==
    /\ LapicDecoded =>
          IF rawIn.size < HV_LAPIC_STATE_SIZE
          THEN codecPc = "lapic_err" /\ codecErr = "EINVAL" /\ lapic = << >>
          ELSE codecPc # "lapic_err" /\ DOMAIN lapic = 0..(LAPIC_REGS_SIZE - 1)
    /\ XSaveDecoded =>
          IF rawIn.size > XSAVE_BUFFER_SIZE
          THEN codecPc = "xsave_err" /\ codecErr = "EINVAL" /\ xsave = << >>
          ELSE /\ codecPc # "xsave_err"
               /\ xsave = [k \in 0..(XSAVE_BUFFER_SIZE - 1) |->
                              IF k < rawIn.size THEN rawIn.bytes[k] ELSE 0]

C5_Witness ==
    /\ codecPc = "xsave_state"
    /\ rawIn.size = 16
    /\ xsave[15] = rawIn.bytes[15]
    /\ xsave[15] # 0
    /\ xsave[16] = 0

\* The offsets the specification documents for the scalar fields.
StatedScalarOffsets ==
    [apic_id |-> 32, apic_version |-> 48, apic_remote_read |-> 192, apic_ldr |-> 208,
     apic_dfr |-> 224, apic_spurious |-> 240, apic_esr |-> 640, apic_icr_low |-> 768,
     apic_icr_high |-> 784, apic_lvt_timer |-> 800, apic_lvt_thermal |-> 816,
     apic_lvt_perfmon |-> 832, apic_lvt_lint0 |-> 848, apic_lvt_lint1 |-> 864,
     apic_lvt_error |-> 880, apic_initial_count |-> 896, apic_counter_value |-> 912,
     apic_divide_configuration |-> 992]

\* The documented offsets of every 32-bit write but the PPR: the scalars, and word i
\* of ISR, TMR and IRR at 0x100, 0x180 and 0x200 + 16*i.
StatedWriteOffsets ==
    {StatedScalarOffsets[f] : f \in ManagedScalars}
    \cup {256 + 16 * i : i \in 0..7}
    \cup {384 + 16 * i : i \in 0..7}
    \cup {512 + 16 * i : i \in 0..7}

\* The bytes of the register file under a documented write or under the PPR at 0xA0.
StatedCoveredBytes ==
    UNION {{o, o + 1, o + 2, o + 3} : o \in StatedWriteOffsets \cup {160}}

\* C13: decoding a hypervisor LAPIC record writes each scalar field at its documented
\* offset and word i of ISR/TMR/IRR at 0x100/0x180/0x200 + 16*i; no two writes
\* overlap, all lie inside the 1024-byte register file, and every byte these writes
\* and the PPR do not cover is zero.
C13_WritesAtDocumentedOffsets ==
    LapicDecodedOk =>
        /\ DOMAIN lapic = 0..1023
        /\ \A f \in ManagedScalars :
              ReadU32(lapic, StatedScalarOffsets[f]) = rawIn.hv[f]
        /\ \A i \in 0..7 :
              /\ ReadU32(lapic, 256 + 16 * i) = rawIn.hv.apic_isr[i]
              /\ ReadU32(lapic, 384 + 16 * i) = rawIn.hv.apic_tmr[i]
              /\ ReadU32(lapic, 512 + 16 * i) = rawIn.hv.apic_irr[i]
        /\ Cardinality(StatedWriteOffsets \cup {160}) = 18 + 24 + 1
        /\ \A a, b \in StatedWriteOffsets \cup {160} : a < b => a + 4 <= b
        /\ \A a \in StatedWriteOffsets \cup {160} : a >= 0 /\ a + 4 <= 1024
        /\ {LapicDecodeWrites(rawIn.hv)[k][1] :
               k \in 1..Len(LapicDecodeWrites(rawIn.hv))} = StatedWriteOffsets \cup {160}
        /\ \A k \in 0..1023 : k \notin StatedCoveredBytes => lapic[k] = 0

\* A record with non-zero fields everywhere was decoded: the error status register
\* and the error LVT hold their own, different values.
C13_Witness ==
    /\ codecPc = "lapic_state"
    /\ rawIn.size = 177
    /\ ReadU32(lapic, 640) = ScalarVal(200, 7)
    /\ ReadU32(lapic, 880) = ScalarVal(200, 15)
    /\ ReadU32(lapic, 512 + 16 * 7) = rawIn.hv.apic_irr[7]
    /\ rawIn.hv.apic_irr[7] # U32Zero
    /\ lapic[128] = 0

\* C14: LAPIC decode from a buffer smaller than the hypervisor LAPIC record returns
\* EINVAL, whatever the buffer holds, and produces no LapicState; from a buffer at
\* least that large it succeeds.
C14_LapicDecodeSizeCheck ==
    LapicDecoded =>
        IF rawIn.size < HV_LAPIC_STATE_SIZE
        THEN /\ codecPc = "lapic_err"
             /\ codecErr = "EINVAL"
             /\ lapic = << >>
             /\ LapicState_try_from([rawIn EXCEPT !.hv = hv_lapic_zero])
                    = LapicState_try_from(rawIn)
        ELSE /\ codecPc \in {"lapic_state", "lapic_raw2", "lapic_enomem"}
             /\ lapic /= << >>
             /\ LapicState_try_from(rawIn).ok

\* A buffer one byte short of the record was refused.
C14_Witness ==
    /\ codecPc = "lapic_err"
    /\ rawIn.size = HV_LAPIC_STATE_SIZE - 1
    /\ rawIn.hv.apic_id # U32Zero
    /\ codecErr = "EINVAL"
    /\ lapic = << >>

\* ------------------------------------------------------------------------
\* Component directory claims (SpecDir)
\* ------------------------------------------------------------------------
\* The sizes and offsets the specification states, component 0 first.
StatedSizes == <<1024, 4096, 4096, 4096, 200>>
StatedOffsets == <<0, 1024, 5120, 9216, 13312>>

\* Component i of a directory's buffer, at the stated offset and size.
Component(mem, i) ==
    SubSeq(mem, StatedOffsets[i + 1] + 1, StatedOffsets[i + 1] + StatedSizes[i + 1])

LastCall == calls[Len(calls)]

\* C7: a copy_to_or_from_buffer call whose external buffer is smaller than the
\* component's size panics, and leaves the directory and the buffer as they were.
C7_ShortBufferPanics ==
    [][(/\ Len(calls') = Len(calls) + 1
        /\ calls'[Len(calls')].index < MSHV_VP_STATE_COUNT
        /\ StatedSizes[calls'[Len(calls')].index + 1] > extBuf.size)
       => (/\ dirPanicked'
           /\ calls'[Len(calls')].panicked
           /\ dirs' = dirs
           /\ extBuf' = extBuf)]_vars

\* A second call, on a 1024-byte buffer and a 4096-byte component, has panicked
\* after a first one went through.
C7_Witness ==
    /\ Len(calls) = 2
    /\ ~calls[1].panicked
    /\ calls[2].panicked
    /\ calls[2].index = MSHV_VP_STATE_XSAVE
    /\ extBuf.size = 1024
    /\ dirPanicked

\* C8: after a copy of component i that did not panic, in either direction, the
\* first size[i] bytes of the external buffer equal the directory's bytes
\* [offset(i), offset(i) + size[i]).
C8_BufferEqualsComponent ==
    (calls /= << >> /\ ~LastCall.panicked)
        => SubSeq(extBuf.bytes, 1, StatedSizes[LastCall.index + 1])
               = Component(dirs[LastCall.dir], LastCall.index)

\* Both directions have been taken: a component went from directory 1 to the buffer
\* and from there into directory 2.
C8_Witness ==
    /\ Len(calls) = 2
    /\ calls[1].to_buffer /\ ~calls[1].panicked /\ calls[1].dir = 1
    /\ ~calls[2].to_buffer /\ ~calls[2].panicked /\ calls[2].dir = 2
    /\ calls[2].index = MSHV_VP_STATE_SYNTHETIC_TIMERS
    /\ dirs[2] /= AllVpStateComponents_default

\* C9: the component sizes are 1024, 4096, 4096, 4096 and 200, the offsets 0, 1024,
\* 5120, 9216 and 13312; the ranges are pairwise disjoint, lie inside the
\* directory's buffer and cover exactly its 13512 bytes; every copy works on the
\* range of its component.
C9_ComponentLayout ==
    /\ \A i \in 0..(MSHV_VP_STATE_COUNT - 1) :
          /\ VP_STATE_COMP_SIZES[i] = StatedSizes[i + 1]
          /\ get_vp_state_comp_start_offset(i) = StatedOffsets[i + 1]
          /\ get_vp_state_comp_start_offset(i) + VP_STATE_COMP_SIZES[i]
                 <= VP_STATE_COMPONENTS_BUFFER_SIZE
    /\ \A i, j \in 0..(MSHV_VP_STATE_COUNT - 1) :
          i < j => get_vp_state_comp_start_offset(i) + VP_STATE_COMP_SIZES[i]
                       <= get_vp_state_comp_start_offset(j)
    /\ get_vp_state_comp_start_offset(0) = 0
    /\ \A i \in 0..(MSHV_VP_STATE_COUNT - 2) :
          get_vp_state_comp_start_offset(i + 1)
              = get_vp_state_comp_start_offset(i) + VP_STATE_COMP_SIZES[i]
    /\ get_vp_state_comp_start_offset(MSHV_VP_STATE_COUNT - 1)
           + VP_STATE_COMP_SIZES[MSHV_VP_STATE_COUNT - 1] = 13512
    /\ VP_STATE_COMPONENTS_BUFFER_SIZE = 13512
    /\ \A d \in 1..Len(dirs) : Len(dirs[d]) = 13512
    /\ \A n \in 1..Len(calls) :
          ~calls[n].panicked =>
              /\ calls[n].start = StatedOffsets[calls[n].index + 1]
              /\ calls[n].len = StatedSizes[calls[n].index + 1]
              /\ calls[n].end = calls[n].start + calls[n].len

\* The last component has been copied: bytes 13312 up to 13512.
C9_Witness ==
    /\ calls /= << >>
    /\ ~LastCall.panicked
    /\ LastCall.index = MSHV_VP_STATE_SYNTHETIC_TIMERS
    /\ LastCall.start = 13312
    /\ LastCall.end = 13512
    /\ Len(dirs[LastCall.dir]) = 13512

\* Directory d was never written by a call before the n-th and started zeroed.
FreshBefore(d, n) ==
    /\ d = 2
    /\ \A m \in 1..(n - 1) : ~(calls[m].dir = d /\ ~calls[m].to_buffer /\ ~calls[m].panicked)

\* C10: copying component i of directory d to the buffer and then from the buffer
\* into a fresh zeroed directory d2 makes component i of d2 equal component i of d.
C10_TransferRoundTrip ==
    \A n \in 2..Len(calls) :
        (/\ n = Len(calls)
         /\ calls[n - 1].to_buffer /\ ~calls[n - 1].panicked
         /\ ~calls[n].to_buffer /\ ~calls[n].panicked
         /\ calls[n].index = calls[n - 1].index
         /\ calls[n].dir /= calls[n - 1].dir
         /\ FreshBefore(calls[n].dir, n))
        => Component(dirs[calls[n].dir], calls[n].index)
               = Component(dirs[calls[n - 1].dir], calls[n].index)

\* The XSAVE component of directory 1 has arrived in directory 2.
C10_Witness ==
    /\ Len(calls) = 2
    /\ calls[1] = [dir |-> 1, index |-> MSHV_VP_STATE_XSAVE, to_buffer |-> TRUE,
                   panicked |-> FALSE, start |-> 1024, end |-> 5120, len |-> 4096]
    /\ calls[2] = [dir |-> 2, index |-> MSHV_VP_STATE_XSAVE, to_buffer |-> FALSE,
                   panicked |-> FALSE, start |-> 1024, end |-> 5120, len |-> 4096]
    /\ Component(dirs[2], MSHV_VP_STATE_XSAVE) = Component(dirs[1], MSHV_VP_STATE_XSAVE)
    /\ Component(dirs[2], MSHV_VP_STATE_XSAVE) /= ZeroBytes(4096)

\* The bytes the two directories hold before any copy.
InitialDirs == <<[k \in 1..13512 |-> (k % 251) + 1], [k \in 1..13512 |-> 0]>>

InitialDir(d) == InitialDirs[d]

\* Some call among the first n copied from the buffer into component i of directory d.
WrittenBy(cs, n, d, i) ==
    \E m \in 1..n : cs[m].dir = d /\ cs[m].index = i /\ ~cs[m].to_buffer /\ ~cs[m].panicked

\* C17: a copy that does not panic moves exactly size[index] bytes and changes
\* nothing else: to the buffer, the directories are unchanged and the buffer's bytes
\* from size[index] on are unchanged; from the buffer, the buffer is unchanged and so
\* is every directory byte outside [offset(index), offset(index) + size[index]),
\* while the component becomes the buffer's first size[index] bytes.  So a component
\* holds the bytes of the last from-buffer copy to it, or its initial bytes.
C17_CopyFrame ==
    [][(Len(calls') = Len(calls) + 1 /\ ~calls'[Len(calls')].panicked)
       => LET c == calls'[Len(calls')]
              off == StatedOffsets[c.index + 1]
              size == StatedSizes[c.index + 1]
          IN /\ extBuf'.size = extBuf.size
             /\ Len(extBuf'.bytes) = Len(extBuf.bytes)
             /\ \A d \in 1..2 : Len(dirs'[d]) = Len(dirs[d])
             /\ IF c.to_buffer
                THEN /\ dirs' = dirs
                     /\ SubSeq(extBuf'.bytes, size + 1, extBuf.size)
                            = SubSeq(extBuf.bytes, size + 1, extBuf.size)
                ELSE /\ extBuf' = extBuf
                     /\ \A d \in 1..2 : d /= c.dir => dirs'[d] = dirs[d]
                     /\ SubSeq(dirs'[c.dir], 1, off) = SubSeq(dirs[c.dir], 1, off)
                     /\ SubSeq(dirs'[c.dir], off + size + 1, 13512)
                            = SubSeq(dirs[c.dir], off + size + 1, 13512)
                     /\ Component(dirs'[c.dir], c.index) = SubSeq(extBuf.bytes, 1, size)
             /\ \A d \in 1..2, i \in 0..4 :
                   ~WrittenBy(calls', Len(calls'), d, i)
                       => Component(dirs'[d], i) = Component(InitialDir(d), i)]_vars

\* The timers component of directory 1 was overwritten from a 1024-byte buffer, and
\* the LAPIC component of the same directory then copied out: the first holds what
\* the buffer held, the second and every other component their initial bytes.
C17_Witness ==
    /\ Len(calls) = 2
    /\ extBuf.size = 1024
    /\ calls[1].dir = 1 /\ calls[1].index = MSHV_VP_STATE_SYNTHETIC_TIMERS
    /\ ~calls[1].to_buffer /\ ~calls[1].panicked
    /\ calls[2].dir = 1 /\ calls[2].index = MSHV_VP_STATE_LAPIC
    /\ calls[2].to_buffer /\ ~calls[2].panicked
    /\ Component(dirs[1], MSHV_VP_STATE_SYNTHETIC_TIMERS) = [k \in 1..200 |-> 255 - (k % 7)]
    /\ SubSeq(dirs[1], 1, 13312) = SubSeq(InitialDir(1), 1, 13312)
    /\ extBuf.bytes = Component(InitialDir(1), MSHV_VP_STATE_LAPIC)
    /\ dirs[2] = InitialDir(2)

\* ------------------------------------------------------------------------
\* MSR set builder and resolver claims (SpecMsr, SpecResolve)
\* ------------------------------------------------------------------------
\* The block appended when flag is 1.
BlockIf(flag, block) == IF flag = 1 THEN block ELSE << >>

\* The six flags the list is stated to depend on.
SixFlags(f) ==
    <<f.proc_features.cet_ss_support, f.proc_features.rdtscp_support,
      f.xsave_features.xsave_supervisor_support,
      f.synthetic_features.access_synic_regs,
      f.synthetic_features.access_partition_reference_tsc,
      f.synthetic_features.access_hypercall_regs>>

\* The stated concatenation.
StatedMsrs(f) ==
    MSRS_COMMON
    \o BlockIf(f.proc_features.cet_ss_support, MSRS_CET_SS)
    \o BlockIf(f.proc_features.rdtscp_support, <<MsrConst.IA32_MSR_TSC_AUX>>)
    \o BlockIf(f.xsave_features.xsave_supervisor_support,
               <<MsrConst.MSR_IA32_REGISTER_U_XSS>>)
    \o BlockIf(f.synthetic_features.access_synic_regs, MSRS_SYNIC)
    \o BlockIf(f.synthetic_features.access_partition_reference_tsc,
               <<HvMsrConst.HV_X64_MSR_REFERENCE_TSC>>)
    \o BlockIf(f.synthetic_features.access_hypercall_regs,
               <<HvMsrConst.HV_X64_MSR_GUEST_OS_ID>>)

\* C11: get_partition_supported_msrs returns the 42 common indices, then the 8 CET-SS
\* indices, TSC_AUX, the supervisor XSS index, the 19 SynIC indices, REFERENCE_TSC
\* and GUEST_OS_ID, each iff its flag is set; two calls whose six flags agree return
\* the same list.
C11_MsrListIsStatedConcatenation ==
    /\ Len(MSRS_COMMON) = 42
    /\ Len(MSRS_CET_SS) = 8
    /\ Len(MSRS_SYNIC) = 19
    /\ \A k \in 1..Len(msrCalls) : msrCalls[k].msrs = StatedMsrs(msrCalls[k].features)
    /\ \A j, k \in 1..Len(msrCalls) :
          SixFlags(msrCalls[j].features) = SixFlags(msrCalls[k].features)
              => msrCalls[j].msrs = msrCalls[k].msrs

\* Two calls with every one of the six flags set, which differ in a bit the builder
\* does not read, returned the same 73 indices.
C11_Witness ==
    /\ Len(msrCalls) = 2
    /\ SixFlags(msrCalls[1].features) = <<1, 1, 1, 1, 1, 1>>
    /\ SixFlags(msrCalls[2].features) = <<1, 1, 1, 1, 1, 1>>
    /\ msrCalls[1].features /= msrCalls[2].features
    /\ Len(msrCalls[2].msrs) = 73
    /\ msrCalls[1].msrs = msrCalls[2].msrs

\* g is f with CET-SS support enabled and nothing else changed.
EnablesCet(f, g) ==
    /\ f.proc_features.cet_ss_support = 0
    /\ g = [f EXCEPT !.proc_features.cet_ss_support = 1]

\* C12: the first 42 entries of every list are the common block; enabling CET-SS
\* support alone inserts the 8 CET indices at positions 42..49 (counted from 0) and
\* leaves the other entries in their order.
C12_CetInsertedAfterCommon ==
    /\ \A k \in 1..Len(msrCalls) : SubSeq(msrCalls[k].msrs, 1, 42) = MSRS_COMMON
    /\ \A j, k \in 1..Len(msrCalls) :
          EnablesCet(msrCalls[j].features, msrCalls[k].features)
              => msrCalls[k].msrs
                     = SubSeq(msrCalls[j].msrs, 1, 42)
                       \o MSRS_CET_SS
                       \o SubSeq(msrCalls[j].msrs, 43, Len(msrCalls[j].msrs))

\* A bundle with entries after the common block was called without and then with
\* CET-SS support.
C12_Witness ==
    /\ Len(msrCalls) = 2
    /\ EnablesCet(msrCalls[1].features, msrCalls[2].features)
    /\ msrCalls[1].features.synthetic_features.access_synic_regs = 1
    /\ msrCalls[1].features.proc_features.rdtscp_support = 1
    /\ Len(msrCalls[2].msrs) = Len(msrCalls[1].msrs) + 8
    /\ msrCalls[2].msrs[43] = MsrConst.MSR_IA32_U_CET
    /\ msrCalls[2].msrs[51] = MsrConst.IA32_MSR_TSC_AUX

\* C15: msr_to_hv_reg_name returns Ok with a register id for every index of the
\* catalogue and the unsupported-index error for every other index, and the same
\* index gives the same result each time.
C15_ResolverTotalAndPure ==
    /\ \A k \in 1..Len(msrLookups) :
          IF msrLookups[k].msr \in MsrCatalogue
          THEN msrLookups[k].result.ok /\ msrLookups[k].result.reg /= ""
          ELSE msrLookups[k].result = MsrLookupErr
    /\ \A j, k \in 1..Len(msrLookups) :
          msrLookups[j].msr = msrLookups[k].msr
              => msrLookups[j].result = msrLookups[k].result

\* Index 0x00000080, which shares its low half with IA32_MSR_EFER, was looked up
\* twice and refused twice.
C15_Witness ==
    /\ Len(msrLookups) = 2
    /\ msrLookups[1].msr = <<0, 128>>
    /\ msrLookups[2].msr = <<0, 128>>
    /\ ~msrLookups[2].result.ok

\* C19: every index of a list get_partition_supported_msrs returned is resolved by
\* msr_to_hv_reg_name to Ok.
C19_ListedMsrsResolve ==
    msrResolved /= << >>
        => /\ Len(msrResolved) = Len(msrCalls[Len(msrCalls)].msrs)
           /\ \A k \in 1..Len(msrResolved) : msrResolved[k].ok

\* The longest list, of 73 indices, has been resolved.
C19_Witness ==
    /\ msrCalls /= << >>
    /\ Len(msrResolved) = 73
    /\ msrResolved[73] = MsrLookupOk("HV_REGISTER_GUEST_OS_ID")

\* ------------------------------------------------------------------------
\* XSAVE and LAPIC round trips that start from the typed state

XSaveEncoded == codecPc \in {"xsave_enc", "xsave_back", "xsave_back_err"}

\* C18: for every XSave x whose encoding got its buffer, the Buffer is one page
\* (4096 bytes) long, page aligned, and its first 4096 bytes are x.buffer; x is
\* the same after the encoding; decoding that Buffer succeeds and returns an
\* XSave equal to x.
C18_XSaveRoundTrip ==
    /\ codecPc = "xsave_enc" =>
          /\ rawBuf.size = 4096
          /\ rawBuf.size = HV_PAGE_SIZE
          /\ rawBuf.align = HV_PAGE_SIZE
          /\ encPtr # 0 /\ encPtr % HV_PAGE_SIZE = 0
          /\ DOMAIN rawBuf.bytes = 0..(rawBuf.size - 1)
          /\ \A k \in 0..4095 : rawBuf.bytes[k] = typedLog[1][k]
          /\ xsave = typedLog[1]
          /\ Len(typedLog) = 1
    /\ codecPc # "xsave_back_err"
    /\ codecPc = "xsave_back" =>
          /\ Len(typedLog) = 2
          /\ typedLog[2] = typedLog[1]
          /\ xsave = typedLog[1]
          /\ codecErr = "none"

\* An XSave with non-zero bytes went through the encoding and came back.
C18_Witness ==
    /\ codecPc = "xsave_back"
    /\ typedLog[1] # XSave_default
    /\ xsave = typedLog[1]
    /\ codecHeap = [allocs |-> 1, deallocs |-> 1]

\* The ISR words a register file holds.
IsrOf(regs) == [i \in 0..7 |-> ReadU32(regs, 256 + 16 * i)]

\* C20: for every LapicState r whose encodings got their buffers, decoding the
\* encoding of r succeeds and gives r' with the bytes of r at every managed 32-bit
\* register (the 18 scalars and the ISR, TMR and IRR words), with the PPR at 0xA0
\* derived from the ISR words of r whatever the PPR of r was, and with zero in every
\* other byte (TPR 0x80, APR 0x90, EOI 0xB0, self-IPI 0x3F0 and all unmapped
\* bytes); encoding and decoding r' gives r' again.
C20_LapicRoundTrip ==
    /\ codecPc \notin {"lapic_back_err", "lapic_back2_err"}
    /\ codecPc = "lapic_back" =>
          LET r == typedLog[1]
              r2 == lapic
          IN /\ Len(typedLog) = 2 /\ typedLog[2] = r2
             /\ codecErr = "none"
             /\ DOMAIN r2 = 0..1023
             /\ \A o \in StatedWriteOffsets : ReadU32(r2, o) = ReadU32(r, o)
             /\ ReadU32(r2, 160) = ToU32(ExpectedPpr(IsrOf(r)))
             /\ \A k \in 0..1023 : k \notin StatedCoveredBytes => r2[k] = 0
             /\ \A o \in {128, 144, 176, 1008} : ReadU32(r2, o) = U32Zero
    /\ codecPc = "lapic_back2" =>
          /\ Len(typedLog) = 3
          /\ typedLog[3] = typedLog[2]
          /\ lapic = typedLog[2]

\* A register file with no zero byte, the PPR, TPR, APR, EOI and self-IPI registers
\* included, and with pending in-service vectors went through both round trips; its
\* own PPR was not the one the ISR words give.
C20_Witness ==
    /\ codecPc = "lapic_back2"
    /\ \A k \in 0..1023 : k \notin 256..383 => typedLog[1][k] # 0
    /\ IsrOf(typedLog[1]) # [i \in 0..7 |-> U32Zero]
    /\ ReadU32(typedLog[1], 160) # ToU32(ExpectedPpr(IsrOf(typedLog[1])))
    /\ ReadU32(lapic, 160) = ToU32(ExpectedPpr(IsrOf(typedLog[1])))
    /\ lapic # typedLog[1]

\* ------------------------------------------------------------------------
\* Ownership of the raw Buffer a decode is given

\* How many decodes have returned, on either path, when the run is at pc.
DecodesReturned ==
    [lapic_state |-> 1, lapic_err |-> 1, lapic_raw2 |-> 1, lapic_enomem |-> 1,
     xsave_state |-> 1, xsave_err |-> 1, xsave_raw2 |-> 1, xsave_enomem |-> 1,
     lapic_back |-> 1, lapic_back_err |-> 1, lapic_enc2 |-> 1, lapic_back_enomem |-> 1,
     lapic_back2 |-> 2, lapic_back2_err |-> 2,
     xsave_back |-> 1, xsave_back_err |-> 1]

\* The run is right after a decode returned: Ok(state) or Err(EINVAL).
AfterDecode ==
    codecPc \in {"lapic_state", "lapic_err", "xsave_state", "xsave_err",
                 "lapic_back", "lapic_back_err", "lapic_back2", "lapic_back2_err",
                 "xsave_back", "xsave_back_err"}

\* C21: LapicState::try_from(buf) and XSave::try_from(buf) take the live Buffer by
\* value and release its region exactly once, whether they return Ok or Err: after
\* a decode returned no Buffer is left to the caller, one dealloc was made for each
\* decode, none was made without a region to free, and no region is still held.
C21_DecodeReleasesBufferOnce ==
    /\ codecHeap.deallocs <= codecHeap.allocs
    /\ codecPc \in DOMAIN DecodesReturned =>
          codecHeap.deallocs = DecodesReturned[codecPc]
    /\ AfterDecode =>
          /\ rawBuf = NoRaw
          /\ codecHeap.deallocs = codecHeap.allocs
          /\ codecErr \in {"none", "EINVAL"}

\* A decode that returned Err(EINVAL) has released the Buffer it was given.
C21_Witness ==
    /\ codecPc \in {"lapic_err", "xsave_err"}
    /\ codecErr = "EINVAL"
    /\ rawIn # NoRaw
    /\ rawBuf = NoRaw
    /\ codecHeap = [allocs |-> 1, deallocs |-> 1]

====
